---- MODULE Spec2Model ----
(***************************************************************************)
(* Yohan backend: connection registry (websocket_manager.py), heartbeat    *)
(* monitor (services/heartbeat_service.py) and the per-connection message  *)
(* pipeline (routers/comms.py).                                            *)
(*                                                                         *)
(* The program runs on one asyncio event loop: code between two awaits is  *)
(* atomic, every await is a point where another task may run.  An action   *)
(* below is one such atomic block together with the completion of the      *)
(* await that ends it.                                                     *)
(***************************************************************************)
EXTENDS Integers, Sequences, FiniteSets, TLC

\* ------------------------------------------------------------------ bounds
\* Latest instant the clock reaches (seconds).
MaxTime == 600
\* Granularity of the clock (seconds per Tick).
TickStep == 300
\* Inbound frames read over all connections.
MaxFrames == 1
\* Minutes of the rate limiter's clock.
MaxWindows == 2
\* Components of a calendar feed next to its padding.
MaxEvents == 3
\* Queries of one conversation.
MaxTurns == 6
\* Queries of two conversations together.
MaxQueries == 3
\* Calls of start and stop of the heartbeat service after the application's start.
MaxCalls == 4

\* ------------------------------------------------------- program constants
ping_interval == 30
timeout_threshold == 300
retry_attempts == 3
HISTORY_COUNT == 20
CALENDAR_LIMIT == 10

\* The uuid4 values Connection.__init__ will draw; each is used once.
SessionIds == {"s1", "s2"}
\* user_id query parameter: absent, or a client-supplied identifier.
None == "None"
ClientUserIds == {"u1"}

\* ---------------------------------------------------------------- helpers
Range(f) == {f[i] : i \in DOMAIN f}

\* dict.pop(k, None) / del d[k]
DictDel(d, k) == [x \in (DOMAIN d) \ {k} |-> d[x]]

\* d[k] = v
DictSet(d, k, v) == [x \in (DOMAIN d) \cup {k} |-> IF x = k THEN v ELSE d[x]]

\* list.remove(x): drops the first occurrence of x
RECURSIVE ListRemove(_, _)
ListRemove(l, x) ==
    IF l = <<>> THEN <<>>
    ELSE IF Head(l) = x THEN Tail(l)
    ELSE <<Head(l)>> \o ListRemove(Tail(l), x)

\* ------------------------------------------------------------- Connection
\* user_id or f"user_{session_id[:8]}"
DefaultUser(session_id) == "user_" \o session_id

Connection(websocket, user_id, session_id, t) ==
    [ websocket  |-> websocket,
      session_id |-> session_id,
      user_id    |-> IF user_id = None THEN DefaultUser(session_id) ELSE user_id,
      last_ping  |-> t ]

\* ------------------------------------------------------ ConnectionManager
EmptyDict == [x \in {} |-> 0]

NewManager == [ active_connections |-> EmptyDict, user_connections |-> EmptyDict ]

\* (variant of connect that starts the user's bucket afresh)
connect_reset_bucket(M, websocket, user_id, session_id, t) ==
    LET connection == Connection(websocket, user_id, session_id, t)
    IN [ active_connections |->
             DictSet(M.active_connections, connection.session_id, connection),
         user_connections |->
             DictSet(M.user_connections, connection.user_id,
                     << connection.session_id >>) ]

connect(M, websocket, user_id, session_id, t) ==
    LET connection == Connection(websocket, user_id, session_id, t)
        uc0 == IF connection.user_id \in DOMAIN M.user_connections
               THEN M.user_connections
               ELSE DictSet(M.user_connections, connection.user_id, <<>>)
    IN [ active_connections |->
             DictSet(M.active_connections, connection.session_id, connection),
         user_connections |->
             [uc0 EXCEPT ![connection.user_id] = Append(@, connection.session_id)] ]

\* (variant of remove_connection that leaves an emptied user bucket in place)
remove_connection_keep_bucket(M, session_id, connection) ==
    LET uid == connection.user_id
    IN [ active_connections |-> DictDel(M.active_connections, session_id),
         user_connections |->
             IF uid \in DOMAIN M.user_connections
             THEN [M.user_connections EXCEPT ![uid] = ListRemove(@, session_id)]
             ELSE M.user_connections ]

remove_connection(M, session_id, connection) ==
    LET uid == connection.user_id
        ac  == DictDel(M.active_connections, session_id)
    IN IF uid \in DOMAIN M.user_connections
       THEN LET l == ListRemove(M.user_connections[uid], session_id)
            IN [ active_connections |-> ac,
                 user_connections |->
                     IF l = <<>> THEN DictDel(M.user_connections, uid)
                     ELSE [M.user_connections EXCEPT ![uid] = l] ]
       ELSE [ active_connections |-> ac,
              user_connections |-> M.user_connections ]

disconnect_session(M, session_id) ==
    IF session_id \in DOMAIN M.active_connections
    THEN remove_connection(M, session_id, M.active_connections[session_id])
    ELSE M

\* (variant that removes the session the search loop looked at last when no
\* connection has the transport)
disconnect_last_seen(M, websocket) ==
    LET found == {sid \in DOMAIN M.active_connections :
                      M.active_connections[sid].websocket = websocket}
        seen  == IF found = {} THEN DOMAIN M.active_connections ELSE found
    IN IF seen = {} THEN M
       ELSE LET sid == CHOOSE x \in seen : TRUE
            IN remove_connection(M, sid, M.active_connections[sid])

disconnect(M, websocket) ==
    LET found == {sid \in DOMAIN M.active_connections :
                      M.active_connections[sid].websocket = websocket}
    IN IF found = {} THEN M
       ELSE LET sid == CHOOSE x \in found : TRUE
            IN remove_connection(M, sid, M.active_connections[sid])

get_connection_count(M) == Cardinality(DOMAIN M.active_connections)

update_connection_ping(M, websocket, t) ==
    [ M EXCEPT !.active_connections =
        [sid \in DOMAIN @ |->
            IF @[sid].websocket = websocket THEN [@[sid] EXCEPT !.last_ping = t]
            ELSE @[sid]] ]

\* ------------------------------------------------------------ wire frames
\* A frame on the wire is the dict() of the pydantic message.  `origin` and
\* `q` are history tags (the handler that produced the frame and the number
\* of the inbound frame it was processing); they are not sent.
Frame(event_type, payload, origin, q) ==
    [ event_type |-> event_type, payload |-> payload, origin |-> origin, q |-> q ]

\* pydantic BaseModel with the default config: keyword arguments that are not
\* declared fields are ignored; declared Optional fields default to None.
PydanticModel(fields, kwargs) ==
    [ f \in fields |-> IF f \in DOMAIN kwargs THEN kwargs[f] ELSE None ]

LLMResponsePayloadFields == {"message", "conversation_id", "usage", "model"}

LLMResponsePayload(kwargs) == PydanticModel(LLMResponsePayloadFields, kwargs)

ErrorPayloadFields == {"error", "error_type"}

ErrorPayload(kwargs) == PydanticModel(ErrorPayloadFields, kwargs)

\* MessageAckPayload is imported by routers/comms.py; its fields are those of
\* the message_ack row of the wire table.
MessageAckPayloadFields == {"message_id", "status", "error_message"}

MessageAckPayload(kwargs) == PydanticModel(MessageAckPayloadFields, kwargs)

MessageAckMessage(message_id, status, error_message, origin, q) ==
    Frame("message_ack",
          MessageAckPayload([message_id |-> message_id, status |-> status,
                             error_message |-> error_message]),
          origin, q)

\* LLMResponseMessage(payload=LLMResponsePayload(message=..., conversation_id=...,
\*   usage=..., model=..., message_id=<record id>, in_reply_to=message_id))
LLMResponseMessage(content, message_id, origin, q) ==
    Frame("llm_response",
          LLMResponsePayload([message |-> content, conversation_id |-> None,
                              usage |-> "usage", model |-> "model",
                              message_id |-> "record-id",
                              in_reply_to |-> message_id]),
          origin, q)

ErrorMessage(error, error_type, origin, q) ==
    Frame("error", ErrorPayload([error |-> error, error_type |-> error_type]),
          origin, q)

\* WebSocketMessage(event_type=..., payload={...}): the payload is a plain dict
WebSocketMessage(event_type, payload, origin, q) ==
    Frame(event_type, payload, origin, q)

\* ------------------------------------------------------------------ state
VARIABLES
    manager,          \* the global ConnectionManager
    pending_pings,    \* HeartbeatService.pending_pings
    hb,               \* the _heartbeat_loop task
    now,              \* wall clock, seconds
    client,           \* per websocket: is the peer still there
    task,             \* per websocket: the websocket_endpoint task
    outbox,           \* per websocket: frames the transport accepted
    db,               \* chat_messages rows, per session id
    connection_logs,  \* connection_logs rows
    llm_service,      \* rate-limit counters of the global LLMService
    nframes,          \* inbound frames read so far
    connected,        \* history: session ids for which connect() returned
    removed,          \* history: session ids whose removal was requested
    store_faults,     \* history: the add_message calls that raised
    pongs,            \* per websocket: pong frames the peer sent, not yet read
    fan,              \* a task that calls send_to_user or broadcast_json
    gate,             \* callers asleep in _check_rate_limit, admissions so far
    context,          \* the last call of gather_context: what it met, its result
    request,          \* the last request generate_response built for the backend
    service           \* HeartbeatService: running, its loop tasks, the caller of start/stop

vars == << manager, pending_pings, hb, now, client, task, outbox, db,
           connection_logs, llm_service, nframes, connected, removed,
           store_faults, pongs, fan, gate, context, request, service >>

NoRequest == [ called |-> FALSE, session |-> None, system |-> <<>>, messages |-> <<>> ]

NoFrame == [kind |-> "none", message |-> "", message_id |-> None]

\* message texts of an llm_query: empty, whitespace only, ordinary
Messages == {"", " ", "Hi"}

MessageIds == {None, "m1"}

\* what receive_text can deliver: text that is not JSON, JSON without
\* event_type/payload, an event_type no branch handles, and the four handled
\* event types
InFrames ==
    { [kind |-> k, message |-> "", message_id |-> None] :
        k \in {"badjson", "nofield", "unknown", "ping", "pong", "status_request"} }
    \cup
    { [kind |-> "llm_query", message |-> m, message_id |-> i] :
        m \in Messages, i \in MessageIds }

\* outcome of one client.messages.create call, by the except clause it reaches
ApiOutcomes == {"success", "rate_limited", "connection_error", "client_error", "unknown"}

\* e: the exception the except clause of handle_llm_query caught, by its
\* origin: "store", or the classification of the backend error that left the
\* retry loop; attempt, last_exception: the locals of that loop, kept until
\* the handler reads its next frame (during the sleep last_exception stands
\* for the error just caught, which is assigned to it when the sleep is over)
NewTask ==
    [ pc |-> "new", frame |-> NoFrame, nread |-> 0, attempt |-> 0,
      last_exception |-> "none", e |-> "none" ]

\* HeartbeatService after lifespan's start(): running, one _heartbeat_loop
\* task alive (`created`: tasks created so far); nobody is inside stop();
\* `calls`, `last`: the calls of start and stop made since, and the last of them
StartedService ==
    [ running |-> TRUE, alive |-> 1, created |-> 1, stopping |-> FALSE,
      calls |-> 0, last |-> "start" ]

\* gather_context has not been called
NoContext == [ called |-> FALSE ]

\* nobody sleeps in _check_rate_limit (wake: the time a caller's sleep ends,
\* -1 when it does not sleep); window_start, admitted: the start of the
\* minute that began with a reset of the limiter, and the number of calls
\* let through during that minute
NewGate ==
    [ wake |-> [s \in SessionIds |-> -1], window_start |-> 0, admitted |-> 0 ]

\* the calling task before its call: `todo` is the copy of the user's list
\* still to be served, `used` the size of the dict when the iterator was made,
\* `visited` the keys the iterator has yielded, `disconnected_sessions` the
\* list of that name, `initial` the sessions addressed when the call was made
NewFan ==
    [ pc |-> "idle", call |-> "none", todo |-> <<>>, used |-> 0, visited |-> {},
      disconnected_sessions |-> {}, initial |-> {} ]

Init ==
    /\ manager = NewManager
    /\ pending_pings = EmptyDict
    /\ hb = [ pc |-> "sleep", queue |-> {}, current_time |-> 0, wake |-> 0 ]
    /\ now = 0
    /\ client = [s \in SessionIds |-> "up"]
    /\ task = [s \in SessionIds |-> NewTask]
    /\ outbox = [s \in SessionIds |-> <<>>]
    /\ db = [s \in SessionIds |-> <<>>]
    /\ connection_logs = {}
    /\ llm_service = [ request_count |-> 0, request_window_start |-> 0 ]
    /\ nframes = 0
    /\ connected = {}
    /\ removed = {}
    /\ store_faults = {}
    /\ pongs = [s \in SessionIds |-> 0]
    /\ fan = NewFan
    /\ gate = NewGate
    /\ context = NoContext
    /\ request = NoRequest
    /\ service = StartedService

\* The registry, the transports and the removal history, threaded through
\* the sends of one atomic block.
World == [ manager |-> manager, outbox |-> outbox, removed |-> removed ]

Commit(W) ==
    /\ manager' = W.manager
    /\ outbox' = W.outbox
    /\ removed' = W.removed

\* ------------------------------------------------------------------ sends
\* websocket.send_json succeeded.  The log keeps every frame but the
\* heartbeat's pings, whose sending is recorded in pending_pings.
Transmit(ob, websocket, data) ==
    IF data.event_type = "ping" THEN ob
    ELSE [ob EXCEPT ![websocket] = Append(@, data)]

send_personal_json(W, data, websocket) ==
    IF client[websocket] = "up"
    THEN [W EXCEPT !.outbox = Transmit(@, websocket, data)]
    ELSE [W EXCEPT !.manager = disconnect(@, websocket),
                   !.removed = @ \cup {websocket}]

\* (variant that only logs the failed send)
send_to_session_no_heal(W, session_id, data) ==
    IF session_id \in DOMAIN W.manager.active_connections
    THEN LET websocket == W.manager.active_connections[session_id].websocket
         IN IF client[websocket] = "up"
            THEN [W EXCEPT !.outbox = Transmit(@, websocket, data)]
            ELSE W
    ELSE W

send_to_session(W, session_id, data) ==
    IF session_id \in DOMAIN W.manager.active_connections
    THEN LET websocket == W.manager.active_connections[session_id].websocket
         IN IF client[websocket] = "up"
            THEN [W EXCEPT !.outbox = Transmit(@, websocket, data)]
            ELSE [W EXCEPT !.manager = disconnect_session(@, session_id),
                           !.removed = @ \cup {session_id}]
    ELSE W

\* -------------------------------------------------------- ChatHistoryService
ChatMessage(role, content) == [ role |-> role, content |-> content ]

add_message(D, session_id, role, content) ==
    [D EXCEPT ![session_id] = Append(@, ChatMessage(role, content))]

\* the `count` newest rows, oldest first
get_recent_messages(D, session_id, count) ==
    LET l == D[session_id]
    IN IF Len(l) <= count THEN l ELSE SubSeq(l, Len(l) - count + 1, Len(l))

\* ---------------------------------------------------------- HeartbeatService
\* (variant of the comparison that also takes the boundary)
TimedOut_ge(time_since_ping) == time_since_ping >= timeout_threshold

\* time_since_ping > timeout_threshold
TimedOut(time_since_ping) == time_since_ping > timeout_threshold

RECURSIVE DisconnectAll(_, _)
DisconnectAll(M, sids) ==
    IF sids = {} THEN M
    ELSE LET sid == CHOOSE x \in sids : TRUE
         IN DisconnectAll(disconnect_session(M, sid), sids \ {sid})

timed_out_sessions(M, current_time) ==
    { sid \in DOMAIN M.active_connections :
        TimedOut(current_time - M.active_connections[sid].last_ping) }

\* (variant that forgets the pending pings of the timed-out sessions but
\* leaves the sessions registered)
check_timeouts_keep_sessions(M, pp, current_time) ==
    LET timed_out == timed_out_sessions(M, current_time)
    IN [ manager |-> M,
         pending_pings |-> [sid \in (DOMAIN pp) \ timed_out |-> pp[sid]],
         timed_out |-> {} ]

\* _check_timeouts: returns the registry and the pending-ping table
check_timeouts(M, pp, current_time) ==
    LET timed_out == timed_out_sessions(M, current_time)
    IN [ manager |-> DisconnectAll(M, timed_out),
         pending_pings |-> [sid \in (DOMAIN pp) \ timed_out |-> pp[sid]],
         timed_out |-> timed_out ]

\* (variant that registers the session of a pong again when it is gone)
handle_pong_revive(M, pp, session_id, t) ==
    [ pending_pings |-> DictDel(pp, session_id),
      manager |->
          IF session_id \in DOMAIN M.active_connections
          THEN [M EXCEPT !.active_connections[session_id].last_ping = t]
          ELSE [M EXCEPT !.active_connections =
                    DictSet(@, session_id,
                            Connection(session_id, DefaultUser(session_id), session_id, t))] ]

\* handle_pong: returns the registry and the pending-ping table
handle_pong(M, pp, session_id, t) ==
    [ pending_pings |-> DictDel(pp, session_id),
      manager |->
          IF session_id \in DOMAIN M.active_connections
          THEN [M EXCEPT !.active_connections[session_id].last_ping = t]
          ELSE M ]

\* _heartbeat_loop wakes from asyncio.sleep(ping_interval); _send_pings takes
\* the snapshot list(manager.active_connections.keys()).  With no connection
\* _send_pings returns at once and _check_timeouts runs in the same block.
HbWake ==
    /\ hb.pc = "sleep"
    /\ now >= hb.wake
    /\ IF DOMAIN manager.active_connections = {}
       THEN hb' = [hb EXCEPT !.wake = now + ping_interval]
       ELSE hb' = [hb EXCEPT !.pc = "ping", !.current_time = now,
                             !.queue = DOMAIN manager.active_connections]
    /\ UNCHANGED << manager, pending_pings, now, client, task, outbox, db,
                    connection_logs, llm_service, nframes, connected, removed, store_faults >>
    /\ UNCHANGED pongs
    /\ UNCHANGED fan
    /\ UNCHANGED gate
    /\ UNCHANGED context
    /\ UNCHANGED service
    /\ UNCHANGED request

\* One iteration of the loop in _send_pings.  After the last one
\* _check_timeouts runs without an intervening await, then the loop sleeps.
HbPingCore(sid) ==
    /\ hb.pc = "ping"
    /\ sid \in hb.queue
    /\ LET ping == WebSocketMessage("ping", [timestamp |-> hb.current_time], "hb", 0)
           W    == send_to_session(World, sid, ping)
           pp   == DictSet(pending_pings, sid, hb.current_time)
           rest == hb.queue \ {sid}
       IN IF rest # {}
          THEN /\ Commit(W)
               /\ pending_pings' = pp
               /\ hb' = [hb EXCEPT !.queue = rest]
          ELSE LET R == check_timeouts(W.manager, pp, now)
               IN /\ Commit([W EXCEPT !.manager = R.manager,
                                      !.removed = @ \cup R.timed_out])
                  /\ pending_pings' = R.pending_pings
                  /\ hb' = [hb EXCEPT !.queue = {}, !.pc = "sleep",
                                      !.wake = now + ping_interval]
    /\ UNCHANGED << now, client, task, db, connection_logs, llm_service,
                    nframes, connected, store_faults >>
    /\ UNCHANGED fan
    /\ UNCHANGED gate
    /\ UNCHANGED context
    /\ UNCHANGED service
    /\ UNCHANGED request

\* one iteration of that loop; what the peer does with the ping is left open
HbPing(sid) ==
    /\ HbPingCore(sid)
    /\ UNCHANGED pongs

\* (variant of start without the check of `running`)
service_start_unguarded(S) ==
    [S EXCEPT !.running = TRUE, !.alive = @ + 1, !.created = @ + 1]

\* start(): `if self.running: return`; running = True; create_task
service_start(S) ==
    IF S.running THEN S
    ELSE [S EXCEPT !.running = TRUE, !.alive = @ + 1, !.created = @ + 1]

\* a caller awaits heartbeat_service.start(); the new task begins with
\* _send_pings
HbStart ==
    /\ ~service.stopping
    /\ service.calls < MaxCalls
    /\ service' = [service_start(service) EXCEPT !.calls = @ + 1, !.last = "start"]
    /\ hb' = IF service.running THEN hb
             ELSE [ pc |-> "sleep", queue |-> {}, current_time |-> 0, wake |-> now ]
    /\ UNCHANGED << manager, pending_pings, now, client, task, outbox, db,
                    connection_logs, llm_service, nframes, connected, removed,
                    store_faults, pongs, fan, gate, context, request >>

\* a caller awaits heartbeat_service.stop(): `if not self.running: return`;
\* running = False; task.cancel(); then stop awaits the task, which gets the
\* CancelledError when it is resumed
HbStop ==
    /\ ~service.stopping
    /\ service.calls < MaxCalls
    /\ IF service.running
       THEN /\ service' = [service EXCEPT !.running = FALSE, !.stopping = TRUE,
                                          !.calls = @ + 1, !.last = "stop"]
            /\ hb' = [hb EXCEPT !.pc = "cancelling"]
       ELSE /\ service' = [service EXCEPT !.calls = @ + 1, !.last = "stop"]
            /\ hb' = hb
    /\ UNCHANGED << manager, pending_pings, now, client, task, outbox, db,
                    connection_logs, llm_service, nframes, connected, removed,
                    store_faults, pongs, fan, gate, context, request >>

\* the loop task is resumed with CancelledError at its sleep or at its send:
\* `except asyncio.CancelledError: break`; the task is done and stop returns
HbCancelled ==
    /\ service.stopping
    /\ hb.pc = "cancelling"
    /\ service' = [service EXCEPT !.stopping = FALSE, !.alive = @ - 1]
    /\ hb' = [hb EXCEPT !.pc = "done", !.queue = {}]
    /\ UNCHANGED << manager, pending_pings, now, client, task, outbox, db,
                    connection_logs, llm_service, nframes, connected, removed,
                    store_faults, pongs, fan, gate, context, request >>

\* ------------------------------------------------------------ environment
\* time passes while every task is suspended
Tick(d) ==
    /\ now + d <= MaxTime
    /\ now' = now + d
    /\ UNCHANGED << manager, pending_pings, hb, client, task, outbox, db,
                    connection_logs, llm_service, nframes, connected, removed, store_faults >>
    /\ UNCHANGED pongs
    /\ UNCHANGED fan
    /\ UNCHANGED gate
    /\ UNCHANGED context
    /\ UNCHANGED service
    /\ UNCHANGED request

\* the peer of an accepted websocket goes away
ClientDrop(s) ==
    /\ task[s].pc \notin {"new", "ended"}
    /\ client[s] = "up"
    /\ client' = [client EXCEPT ![s] = "gone"]
    /\ UNCHANGED << manager, pending_pings, hb, now, task, outbox, db,
                    connection_logs, llm_service, nframes, connected, removed, store_faults >>
    /\ UNCHANGED pongs
    /\ UNCHANGED fan
    /\ UNCHANGED gate
    /\ UNCHANGED context
    /\ UNCHANGED service
    /\ UNCHANGED request

\* (variant that goes on to the context without the status_update)
Connect_no_status(s, user_id, db_ok) ==
    /\ task[s].pc = "new"
    /\ connected' = connected \cup {s}
    /\ LET M == connect(manager, s, user_id, s, now)
           W == [World EXCEPT !.manager = M]
       IN /\ connection_logs' = IF db_ok THEN connection_logs \cup {<<s, "connect">>}
                                ELSE connection_logs
          /\ Commit(W)
          /\ task' = [task EXCEPT ![s].pc = IF db_ok THEN "context" ELSE "ended"]
    /\ store_faults' = IF db_ok THEN store_faults
                       ELSE store_faults \cup {<<s, 0, "connect">>}
    /\ UNCHANGED << pending_pings, hb, now, client, db, llm_service, nframes >>
    /\ UNCHANGED pongs
    /\ UNCHANGED fan
    /\ UNCHANGED gate
    /\ UNCHANGED context
    /\ UNCHANGED service
    /\ UNCHANGED request

\* ------------------------------------------------------ websocket_endpoint
\* manager.connect, get_session / create_session / log_connection_event, and
\* the initial status_update.  A fault of the store (db_ok = FALSE) is not a
\* WebSocketDisconnect: it leaves the handler through `finally` only.
Connect(s, user_id, db_ok) ==
    /\ task[s].pc = "new"
    /\ connected' = connected \cup {s}
    /\ LET M == connect(manager, s, user_id, s, now)
           W == [World EXCEPT !.manager = M]
           status == WebSocketMessage("status_update",
                         [status |-> "idle", session_id |-> s,
                          user_id |-> M.active_connections[s].user_id], s, 0)
       IN IF db_ok
          THEN /\ connection_logs' = connection_logs \cup {<<s, "connect">>}
               /\ Commit(send_personal_json(W, status, s))
               /\ task' = [task EXCEPT ![s].pc = "context"]
          ELSE /\ connection_logs' = connection_logs
               /\ Commit(W)
               /\ task' = [task EXCEPT ![s].pc = "ended"]
    /\ store_faults' = IF db_ok THEN store_faults
                       ELSE store_faults \cup {<<s, 0, "connect">>}
    /\ UNCHANGED << pending_pings, hb, now, client, db, llm_service, nframes >>
    /\ UNCHANGED pongs
    /\ UNCHANGED fan
    /\ UNCHANGED gate
    /\ UNCHANGED context
    /\ UNCHANGED service
    /\ UNCHANGED request

\* get_recent_messages; chat_history if there are rows; otherwise
\* gather_context (which always returns a bundle) and the system message,
\* whose failure is only logged.
Context(s, recent_ok, sys_ok) ==
    /\ task[s].pc = "context"
    /\ IF ~recent_ok
       THEN /\ task' = [task EXCEPT ![s].pc = "ended"]
            /\ UNCHANGED << manager, outbox, removed, db, store_faults >>
       ELSE LET recent_messages == get_recent_messages(db, s, HISTORY_COUNT)
            IN /\ task' = [task EXCEPT ![s].pc = "recv"]
               /\ IF recent_messages # <<>>
                  THEN /\ Commit(send_personal_json(World,
                              WebSocketMessage("chat_history",
                                  [messages |-> recent_messages], s, 0), s))
                       /\ UNCHANGED << db, store_faults >>
                  ELSE /\ UNCHANGED << manager, outbox, removed >>
                       /\ db' = IF sys_ok
                                THEN add_message(db, s, "system", "ctx")
                                ELSE db
                       /\ store_faults' = IF sys_ok THEN store_faults
                                          ELSE store_faults \cup {<<s, 0, "system">>}
    /\ UNCHANGED << pending_pings, hb, now, client, connection_logs,
                    llm_service, nframes, connected >>
    /\ UNCHANGED pongs
    /\ UNCHANGED fan
    /\ UNCHANGED gate
    /\ UNCHANGED context
    /\ UNCHANGED service
    /\ UNCHANGED request

\* receive_text raises: WebSocketDisconnect (the except clause logs the event
\* and calls manager.disconnect) or another error (only `finally` runs).  A
\* store fault inside the except clause skips manager.disconnect.
ReceiveClosed(s, ws_disconnect, log_ok) ==
    /\ task[s].pc = "recv"
    /\ client[s] = "gone"
    /\ task' = [task EXCEPT ![s].pc = "ended"]
    /\ IF ws_disconnect /\ log_ok
       THEN /\ connection_logs' = connection_logs \cup {<<s, "disconnect">>}
            /\ manager' = disconnect(manager, s)
            /\ removed' = removed \cup {s}
       ELSE UNCHANGED << connection_logs, manager, removed >>
    /\ store_faults' = IF ws_disconnect /\ ~log_ok
                       THEN store_faults \cup {<<s, task[s].nread, "disconnect">>}
                       ELSE store_faults
    /\ UNCHANGED << pending_pings, hb, now, client, outbox, db, llm_service,
                    nframes, connected >>
    /\ UNCHANGED pongs
    /\ UNCHANGED fan
    /\ UNCHANGED gate
    /\ UNCHANGED context
    /\ UNCHANGED service
    /\ UNCHANGED request

\* ------------------------------------------------------------- LLMService
max_requests_per_minute == 50

\* _check_rate_limit reaches its asyncio.sleep
RateLimitSleeps(L, t) ==
    LET count == IF t - L.request_window_start > 60 THEN 0 ELSE L.request_count
        start == IF t - L.request_window_start > 60 THEN t ELSE L.request_window_start
    IN count >= max_requests_per_minute /\ 60 - (t - start) > 0

\* _check_rate_limit on the path that does not sleep
check_rate_limit(L, t) ==
    LET L1 == IF t - L.request_window_start > 60
              THEN [ request_count |-> 0, request_window_start |-> t ]
              ELSE L
    IN [L1 EXCEPT !.request_count = @ + 1]

\* (variant that also goes on after an APIError)
Retried_api_error(outcome) ==
    outcome \in {"rate_limited", "connection_error", "client_error", "unknown"}

\* the except clauses of _make_api_call_with_retry that go on to the next attempt
Retried(outcome) == outcome \in {"rate_limited", "connection_error", "unknown"}

\* --------------------------------------------------------- handle_llm_query
\* The local state of one handler block: the world, the store, the task's
\* own record and the rate-limit counters.
Local(s) ==
    [ W |-> World, db |-> db, task |-> task[s], llm |-> llm_service,
      faults |-> store_faults, request |-> request ]

Apply(R, s) ==
    /\ Commit(R.W)
    /\ db' = R.db
    /\ task' = [task EXCEPT ![s] = R.task]
    /\ llm_service' = R.llm
    /\ store_faults' = R.faults
    /\ request' = R.request

\* send_to_user: send_to_session for each session id of a copy of the
\* user's list
RECURSIVE SendEach(_, _, _)
SendEach(W, sids, data) ==
    IF sids = <<>> THEN W
    ELSE SendEach(send_to_session(W, Head(sids), data), Tail(sids), data)

send_to_user(W, user_id, data) ==
    IF user_id \in DOMAIN W.manager.user_connections
    THEN SendEach(W, W.manager.user_connections[user_id], data)
    ELSE W

\* (variant that addresses the user of the session instead of the session)
Reply_to_user(W, session_id, data) ==
    IF session_id \in DOMAIN W.manager.active_connections
    THEN send_to_user(W, W.manager.active_connections[session_id].user_id, data)
    ELSE W

\* every frame of the lifecycle goes out through manager.send_to_session(session_id, ...)
Reply(W, session_id, data) == send_to_session(W, session_id, data)

\* chat_service.add_message inside the lifecycle: the row is written, or the
\* call raises
try_add_message(R, s, role, content, ok) ==
    IF ok THEN [R EXCEPT !.db = add_message(R.db, s, role, content)]
    ELSE [R EXCEPT !.faults = @ \cup {<<s, R.task.nread, content>>}]

\* f"Failed to process LLM query: {str(e)}"
LLMErrorText(e) == "Failed to process LLM query: " \o e

\* (variant whose failed error row leaves handle_llm_query: the read loop
\* reports it as an error of the message)
Fail_row_fault_raised(R, s, err_ok) ==
    LET mid == R.task.frame.message_id
        R1  == try_add_message(R, s, "assistant", "Error", err_ok)
    IN IF ~err_ok
       THEN [R1 EXCEPT !.W = send_personal_json(R.W,
                                 WebSocketMessage("error", [error |-> "Error processing message"],
                                                  s, R.task.nread), s),
                       !.task.pc = "recv"]
       ELSE IF mid # None
       THEN [R1 EXCEPT !.W = Reply(R.W, s, MessageAckMessage(mid, "error", R.task.e,
                                                            s, R.task.nread)),
                       !.task.pc = "send_error"]
       ELSE [R1 EXCEPT !.W = Reply(R.W, s, ErrorMessage(LLMErrorText(R.task.e),
                                                        "llm_error", s, R.task.nread)),
                       !.task.pc = "recv"]

\* (variant of the except clause that records the error as a system message)
Fail_system_role(R, s, err_ok) ==
    LET mid == R.task.frame.message_id
        R1  == try_add_message(R, s, "system", "Error", err_ok)
    IN IF mid # None
       THEN [R1 EXCEPT !.W = Reply(R.W, s, MessageAckMessage(mid, "error", R.task.e,
                                                            s, R.task.nread)),
                       !.task.pc = "send_error"]
       ELSE [R1 EXCEPT !.W = Reply(R.W, s, ErrorMessage(LLMErrorText(R.task.e),
                                                        "llm_error", s, R.task.nread)),
                       !.task.pc = "recv"]

\* (variant of the except clause that returns after the error acknowledgement)
Fail_returns_after_ack(R, s, err_ok) ==
    LET mid == R.task.frame.message_id
        R1  == try_add_message(R, s, "assistant", "Error", err_ok)
    IN IF mid # None
       THEN [R1 EXCEPT !.W = Reply(R.W, s, MessageAckMessage(mid, "error", R.task.e,
                                                            s, R.task.nread)),
                       !.task.pc = "recv"]
       ELSE [R1 EXCEPT !.W = Reply(R.W, s, ErrorMessage(LLMErrorText(R.task.e),
                                                        "llm_error", s, R.task.nread)),
                       !.task.pc = "recv"]

\* (variant of the except clause that does not record the error)
Fail_no_row(R, s, err_ok) ==
    LET mid == R.task.frame.message_id
    IN IF mid # None
       THEN [R EXCEPT !.W = Reply(R.W, s, MessageAckMessage(mid, "error", R.task.e,
                                                           s, R.task.nread)),
                      !.task.pc = "send_error"]
       ELSE [R EXCEPT !.W = Reply(R.W, s, ErrorMessage(LLMErrorText(R.task.e),
                                                       "llm_error", s, R.task.nread)),
                      !.task.pc = "recv"]

\* (variant of the except clause that acknowledges without a message_id too)
Fail_ack_always(R, s, err_ok) ==
    LET mid == R.task.frame.message_id
        R1  == try_add_message(R, s, "assistant", "Error", err_ok)
    IN [R1 EXCEPT !.W = Reply(R.W, s, MessageAckMessage(mid, "error", R.task.e,
                                                        s, R.task.nread)),
                  !.task.pc = "send_error"]

\* the except clause: best-effort error row, message_ack{error} when a
\* message_id was given (then the llm_error frame is the next send),
\* otherwise the llm_error frame directly
Fail(R, s, err_ok) ==
    LET mid == R.task.frame.message_id
        R1  == try_add_message(R, s, "assistant", "Error", err_ok)
    IN IF mid # None
       THEN [R1 EXCEPT !.W = Reply(R.W, s, MessageAckMessage(mid, "error", R.task.e,
                                                            s, R.task.nread)),
                       !.task.pc = "send_error"]
       ELSE [R1 EXCEPT !.W = Reply(R.W, s, ErrorMessage(LLMErrorText(R.task.e),
                                                        "llm_error", s, R.task.nread)),
                       !.task.pc = "recv"]

\* an exception e reaches the except clause
Raise(R, s, e, err_ok) == Fail([R EXCEPT !.task.e = e], s, err_ok)

\* (variant that returns after the llm_response frame)
Succeed_skip_delivered(R, s, asst_ok, err_ok) ==
    LET mid == R.task.frame.message_id
    IN IF asst_ok
       THEN [R EXCEPT !.db = add_message(R.db, s, "assistant", "reply"),
                      !.W = Reply(R.W, s, LLMResponseMessage("reply", mid, s, R.task.nread)),
                      !.task.pc = "recv"]
       ELSE Raise([R EXCEPT !.faults = @ \cup {<<s, R.task.nread, "reply">>}],
                  s, "store", err_ok)

\* (variant that drops the response of a session that is gone)
Succeed_if_registered(R, s, asst_ok, err_ok) ==
    LET mid == R.task.frame.message_id
    IN IF asst_ok
       THEN [R EXCEPT !.db = IF s \in DOMAIN R.W.manager.active_connections
                            THEN add_message(R.db, s, "assistant", "reply") ELSE R.db,
                      !.W = Reply(R.W, s, LLMResponseMessage("reply", mid, s, R.task.nread)),
                      !.task.pc = IF mid # None THEN "ack_delivered" ELSE "recv"]
       ELSE Raise([R EXCEPT !.faults = @ \cup {<<s, R.task.nread, "reply">>}],
                  s, "store", err_ok)

\* generate_response returned: assistant row, then the llm_response frame
Succeed(R, s, asst_ok, err_ok) ==
    LET mid == R.task.frame.message_id
    IN IF asst_ok
       THEN [R EXCEPT !.db = add_message(R.db, s, "assistant", "reply"),
                      !.W = Reply(R.W, s, LLMResponseMessage("reply", mid, s, R.task.nread)),
                      !.task.pc = IF mid # None THEN "ack_delivered" ELSE "recv"]
       ELSE Raise([R EXCEPT !.faults = @ \cup {<<s, R.task.nread, "reply">>}],
                  s, "store", err_ok)

\* (variant of the loop with one pass more)
Attempt_once_more(R, s, outcome, asst_ok, err_ok) ==
    IF outcome = "success" THEN Succeed(R, s, asst_ok, err_ok)
    ELSE IF Retried(outcome)
    THEN IF R.task.attempt < retry_attempts
         THEN [R EXCEPT !.task.pc = "backoff", !.task.attempt = @ + 1,
                        !.task.last_exception = outcome]
         ELSE Raise([R EXCEPT !.task.last_exception = outcome], s, outcome, err_ok)
    ELSE Raise(R, s, outcome, err_ok)

\* one pass of the loop `for attempt in range(self.retry_attempts)`: the
\* response is returned; or the error is kept in last_exception and, unless
\* this was the last pass, the loop sleeps and goes on (after the last pass
\* `raise last_exception`); or the error is raised at once. The error that
\* leaves the loop reaches handle_llm_query inside an LLMError whose message
\* ends with its text.
Attempt(R, s, outcome, asst_ok, err_ok) ==
    IF outcome = "success" THEN Succeed(R, s, asst_ok, err_ok)
    ELSE IF Retried(outcome)
    THEN IF R.task.attempt < retry_attempts - 1
         THEN [R EXCEPT !.task.pc = "backoff", !.task.attempt = @ + 1,
                        !.task.last_exception = outcome]
         ELSE Raise([R EXCEPT !.task.last_exception = outcome], s, outcome, err_ok)
    ELSE Raise(R, s, outcome, err_ok)

\* conversation_history: one LLMMessage for each row of the history
LLMMessage(role, content) == [ role |-> role, content |-> content ]

ConversationHistory(recent_messages) ==
    [ i \in DOMAIN recent_messages |->
        LLMMessage(recent_messages[i].role, recent_messages[i].content) ]

\* conversation_history[-10:]
HISTORY_WINDOW == 10

\* l[-n:]
LastN(l, n) == IF Len(l) <= n THEN l ELSE SubSeq(l, Len(l) - n + 1, Len(l))

\* _build_dynamic_system_prompt with context=None: the base prompt, then the
\* content of every system message it is given
build_dynamic_system_prompt(system_messages) ==
    <<"base">> \o [ i \in DOMAIN system_messages |-> system_messages[i].content ]

\* (variant that looks for the system messages in the whole history)
generate_request_whole_history(session_id, message, conversation_history) ==
    LET system_messages == SelectSeq(conversation_history,
                                     LAMBDA m : m.role = "system")
        user_assistant_messages ==
            SelectSeq(LastN(conversation_history, HISTORY_WINDOW),
                      LAMBDA m : m.role \in {"user", "assistant"})
    IN [ called |-> TRUE, session |-> session_id,
         system |-> build_dynamic_system_prompt(system_messages),
         messages |-> Append(user_assistant_messages, LLMMessage("user", message)) ]

\* generate_response up to the rate limiter: what client.messages.create is
\* given as `system` and as `messages`
generate_request(session_id, message, conversation_history) ==
    LET recent == LastN(conversation_history, HISTORY_WINDOW)
        system_messages == SelectSeq(recent, LAMBDA m : m.role = "system")
        user_assistant_messages ==
            SelectSeq(recent, LAMBDA m : m.role \in {"user", "assistant"})
    IN [ called |-> TRUE, session |-> session_id,
         system |-> build_dynamic_system_prompt(system_messages),
         messages |-> Append(user_assistant_messages, LLMMessage("user", message)) ]

\* (variant that goes on without the user row)
Work_without_user_row(R, s, user_ok, hist_ok, outcome, asst_ok, err_ok) ==
    LET R1 == try_add_message(R, s, "user", R.task.frame.message, user_ok)
    IN IF ~hist_ok THEN Raise(R1, s, "store", err_ok)
       ELSE Attempt([R1 EXCEPT !.llm = check_rate_limit(R.llm, now),
                               !.request = generate_request(s, R.task.frame.message,
                                   ConversationHistory(
                                       get_recent_messages(R1.db, s, HISTORY_COUNT))),
                               !.task.attempt = 0,
                               !.task.last_exception = "none"],
                    s, outcome, asst_ok, err_ok)

\* user row, history, rate limiter, first API call
Work(R, s, user_ok, hist_ok, outcome, asst_ok, err_ok) ==
    LET R1 == try_add_message(R, s, "user", R.task.frame.message, user_ok)
    IN IF ~user_ok THEN Raise(R1, s, "store", err_ok)
       ELSE IF ~hist_ok THEN Raise(R1, s, "store", err_ok)
       ELSE Attempt([R1 EXCEPT !.llm = check_rate_limit(R.llm, now),
                               !.request = generate_request(s, R.task.frame.message,
                                   ConversationHistory(
                                       get_recent_messages(R1.db, s, HISTORY_COUNT))),
                               !.task.attempt = 0,
                               !.task.last_exception = "none"],
                    s, outcome, asst_ok, err_ok)

\* `if not user_message`
NoMessage(user_message) == user_message = ""

\* (variant whose first acknowledgement already says "processing")
StartQuery_processing_first(R, s, user_ok, hist_ok, outcome, asst_ok, err_ok) ==
    LET f == R.task.frame
    IN IF NoMessage(f.message)
       THEN [R EXCEPT !.W = Reply(R.W, s,
                 ErrorMessage("No message provided in LLM query",
                              "validation_error", s, R.task.nread))]
       ELSE IF f.message_id # None
       THEN [R EXCEPT !.W = Reply(R.W, s,
                          MessageAckMessage(f.message_id, "processing", None, s, R.task.nread)),
                      !.task.pc = "ack_processing"]
       ELSE Work(R, s, user_ok, hist_ok, outcome, asst_ok, err_ok)

\* handle_llm_query up to its first await
StartQuery(R, s, user_ok, hist_ok, outcome, asst_ok, err_ok) ==
    LET f == R.task.frame
    IN IF NoMessage(f.message)
       THEN [R EXCEPT !.W = Reply(R.W, s,
                 ErrorMessage("No message provided in LLM query",
                              "validation_error", s, R.task.nread))]
       ELSE IF f.message_id # None
       THEN [R EXCEPT !.W = Reply(R.W, s,
                          MessageAckMessage(f.message_id, "received", None, s, R.task.nread)),
                      !.task.pc = "ack_processing"]
       ELSE Work(R, s, user_ok, hist_ok, outcome, asst_ok, err_ok)

\* the three protocol errors of the read loop and of handle_websocket_message
ProtocolErrorKinds == {"badjson", "nofield", "unknown"}

ProtocolErrorText(kind) ==
    IF kind = "badjson" THEN "Invalid JSON format"
    ELSE IF kind = "nofield" THEN "Invalid message format"
    ELSE "Unknown message type"

\* (variant that closes the connection after reporting the error)
ProtocolError_closing(R, s, kind) ==
    LET W == send_personal_json(R.W,
                 WebSocketMessage("error", [error |-> ProtocolErrorText(kind)],
                                  s, R.task.nread), s)
    IN [R EXCEPT !.W = [W EXCEPT !.manager = disconnect(@, s),
                                 !.removed = @ \cup {s}]]

ProtocolError(R, s, kind) ==
    [R EXCEPT !.W = send_personal_json(R.W,
        WebSocketMessage("error", [error |-> ProtocolErrorText(kind)], s, R.task.nread), s)]

\* one frame from receive_text that is not an llm_query, parsed and dispatched
ReceiveFrame(s, frame) ==
    /\ task[s].pc = "recv"
    /\ nframes < MaxFrames
    /\ frame.kind # "llm_query"
    /\ nframes' = nframes + 1
    /\ LET R == [Local(s) EXCEPT !.task.frame = frame, !.task.nread = @ + 1,
                                 !.task.e = "none", !.task.attempt = 0,
                                 !.task.last_exception = "none"]
       IN CASE frame.kind \in ProtocolErrorKinds ->
                 /\ Apply(ProtocolError(R, s, frame.kind), s)
                 /\ pending_pings' = pending_pings
            [] frame.kind = "ping" ->
                 /\ Apply([R EXCEPT !.W = send_personal_json(
                              [R.W EXCEPT !.manager = update_connection_ping(@, s, now)],
                              WebSocketMessage("pong", [timestamp |-> ""], s, R.task.nread), s)], s)
                 /\ pending_pings' = pending_pings
            [] frame.kind = "pong" ->
                 LET P == handle_pong(manager, pending_pings, s, now)
                 IN /\ Apply([R EXCEPT !.W.manager = P.manager], s)
                    /\ pending_pings' = P.pending_pings
            [] frame.kind = "status_request" ->
                 /\ Apply([R EXCEPT !.W = send_personal_json(R.W,
                              WebSocketMessage("status_update",
                                  [status |-> "idle",
                                   connections |-> get_connection_count(manager)],
                                  s, R.task.nread), s)], s)
                 /\ pending_pings' = pending_pings
    /\ UNCHANGED << hb, now, client, connection_logs, connected >>
    /\ UNCHANGED pongs
    /\ UNCHANGED fan
    /\ UNCHANGED gate
    /\ UNCHANGED context
    /\ UNCHANGED service

\* an llm_query frame from receive_text, as long as fewer than `limit` frames
\* were read: handle_llm_query up to its first await
ReceiveQueryUpTo(limit, s, frame, user_ok, hist_ok, outcome, asst_ok, err_ok) ==
    /\ task[s].pc = "recv"
    /\ nframes < limit
    /\ frame.kind = "llm_query"
    /\ ~RateLimitSleeps(llm_service, now)
    /\ nframes' = nframes + 1
    /\ LET R == [Local(s) EXCEPT !.task.frame = frame, !.task.nread = @ + 1,
                                 !.task.e = "none", !.task.attempt = 0,
                                 !.task.last_exception = "none"]
       IN Apply(StartQuery(R, s, user_ok, hist_ok, outcome, asst_ok, err_ok), s)
    /\ UNCHANGED << pending_pings, hb, now, client, connection_logs, connected >>
    /\ UNCHANGED pongs
    /\ UNCHANGED fan
    /\ UNCHANGED gate
    /\ UNCHANGED context
    /\ UNCHANGED service

\* an llm_query frame from receive_text
ReceiveQuery(s, frame, user_ok, hist_ok, outcome, asst_ok, err_ok) ==
    ReceiveQueryUpTo(MaxFrames, s, frame, user_ok, hist_ok, outcome, asst_ok, err_ok)

\* the next llm_query frame of one of two conversations
SharedQuery(s, frame, user_ok, hist_ok, outcome, asst_ok, err_ok) ==
    ReceiveQueryUpTo(MaxQueries, s, frame, user_ok, hist_ok, outcome, asst_ok, err_ok)

\* the next llm_query frame of a long conversation
NextQuery(s, frame, user_ok, hist_ok, outcome, asst_ok, err_ok) ==
    ReceiveQueryUpTo(MaxTurns, s, frame, user_ok, hist_ok, outcome, asst_ok, err_ok)

\* message_ack{processing}, then the work up to the next await
AckProcessing(s, user_ok, hist_ok, outcome, asst_ok, err_ok) ==
    /\ task[s].pc = "ack_processing"
    /\ ~RateLimitSleeps(llm_service, now)
    /\ LET R  == Local(s)
           R1 == [R EXCEPT !.W = Reply(R.W, s,
                     MessageAckMessage(R.task.frame.message_id, "processing", None,
                                       s, R.task.nread))]
       IN Apply(Work(R1, s, user_ok, hist_ok, outcome, asst_ok, err_ok), s)
    /\ UNCHANGED << pending_pings, hb, now, client, connection_logs, nframes,
                    connected >>
    /\ UNCHANGED pongs
    /\ UNCHANGED fan
    /\ UNCHANGED gate
    /\ UNCHANGED context
    /\ UNCHANGED service

\* asyncio.sleep(delay) of the retry loop is over: next API call
Backoff(s, outcome, asst_ok, err_ok) ==
    /\ task[s].pc = "backoff"
    /\ Apply(Attempt(Local(s), s, outcome, asst_ok, err_ok), s)
    /\ UNCHANGED << pending_pings, hb, now, client, connection_logs, nframes,
                    connected >>
    /\ UNCHANGED pongs
    /\ UNCHANGED fan
    /\ UNCHANGED gate
    /\ UNCHANGED context
    /\ UNCHANGED service

\* message_ack{delivered}
AckDelivered(s) ==
    /\ task[s].pc = "ack_delivered"
    /\ LET R == Local(s)
       IN Apply([R EXCEPT !.W = Reply(R.W, s,
                     MessageAckMessage(R.task.frame.message_id, "delivered", None,
                                       s, R.task.nread)),
                          !.task.pc = "recv"], s)
    /\ UNCHANGED << pending_pings, hb, now, client, connection_logs, nframes,
                    connected >>
    /\ UNCHANGED pongs
    /\ UNCHANGED fan
    /\ UNCHANGED gate
    /\ UNCHANGED context
    /\ UNCHANGED service

\* the llm_error frame that follows message_ack{error}
SendError(s) ==
    /\ task[s].pc = "send_error"
    /\ LET R == Local(s)
       IN Apply([R EXCEPT !.W = Reply(R.W, s,
                     ErrorMessage(LLMErrorText(R.task.e), "llm_error",
                                  s, R.task.nread)),
                          !.task.pc = "recv"], s)
    /\ UNCHANGED << pending_pings, hb, now, client, connection_logs, nframes,
                    connected >>
    /\ UNCHANGED pongs
    /\ UNCHANGED fan
    /\ UNCHANGED gate
    /\ UNCHANGED context
    /\ UNCHANGED service

\* ---------------------------------------------------------- specification
\* The outcomes of the store and of the backend that one block can meet:
\* <<user row ok, history ok, API outcome, assistant row ok, error row ok>>.
\* Outcomes no branch looks at are fixed to TRUE / "success".
Scenarios ==
    { <<FALSE, TRUE, "success", TRUE, e>> : e \in BOOLEAN }
    \cup { <<TRUE, FALSE, "success", TRUE, e>> : e \in BOOLEAN }
    \cup { <<TRUE, TRUE, "success", TRUE, TRUE>> }
    \cup { <<TRUE, TRUE, "success", FALSE, e>> : e \in BOOLEAN }
    \cup { <<TRUE, TRUE, o, TRUE, e>> : o \in ApiOutcomes \ {"success"}, e \in BOOLEAN }

\* the scenarios in which the store never fails
StoreOk == { x \in Scenarios : x[1] /\ x[2] /\ x[4] /\ x[5] }

\* a stretch of time longer than the timeout
LongStep == timeout_threshold + ping_interval

Heartbeat(S) ==
    \/ HbWake
    \/ \E sid \in S : HbPing(sid)

\* connection handlers of the sessions S, with user ids U, store outcomes B
\* and inbound frames F
Connections(S, U, B, F) ==
    \/ \E s \in S : ClientDrop(s)
    \/ \E s \in S, u \in U, ok \in B : Connect(s, u, ok)
    \/ \E s \in S, a, b \in B : Context(s, a, b)
    \/ \E s \in S, a \in BOOLEAN, b \in B : ReceiveClosed(s, a, b)
    \/ \E s \in S, f \in F : ReceiveFrame(s, f)

\* query lifecycles of the sessions S with the llm_query frames F under the
\* scenarios X
Queries(S, F, X) ==
    \/ \E s \in S, f \in F, x \in X :
           ReceiveQuery(s, f, x[1], x[2], x[3], x[4], x[5])
    \/ \E s \in S, x \in X :
           AckProcessing(s, x[1], x[2], x[3], x[4], x[5])
    \/ \E s \in S, x \in X :
           Backoff(s, x[3], x[4], x[5])
    \/ \E s \in S : AckDelivered(s)
    \/ \E s \in S : SendError(s)

ProtocolErrorFrames == { f \in InFrames : f.kind \in ProtocolErrorKinds }

LivenessFrames == { f \in InFrames : f.kind \in {"ping", "pong"} }

QueryFrames == { f \in InFrames : f.kind = "llm_query" }

\* the llm_query frames without the whitespace-only text
PlainQueryFrames == { f \in QueryFrames : f.message \in {"", "Hi"} }

\* Two connections of one user or of two, both sending malformed frames and
\* one of them queries; the store works, the backend may fail.
Next ==
    \/ Connections(SessionIds, ClientUserIds \cup {None}, {TRUE}, ProtocolErrorFrames)
    \/ Queries({"s1"}, QueryFrames, StoreOk)

Spec == Init /\ [][Next]_vars

\* the frames that are not JSON
MalformedFrames == { f \in InFrames : f.kind = "badjson" }

\* One connection with every outcome of the store and of the backend during
\* a query; the peer may go away at any time.
NextSolo ==
    \/ Connections({"s1"}, ClientUserIds, {TRUE}, MalformedFrames)
    \/ Queries({"s1"}, PlainQueryFrames, Scenarios)

SpecSolo == Init /\ [][NextSolo]_vars

\* the frames that ask for the status
StatusFrames == { f \in InFrames : f.kind = "status_request" }

\* One connection whose store may fail at connect, at the context message
\* and at disconnect; the peer asks for the status or queries, the store
\* works during the query, the backend may fail.
NextConnect ==
    \/ Connections({"s1"}, ClientUserIds, BOOLEAN, StatusFrames)
    \/ Queries({"s1"}, PlainQueryFrames, StoreOk)

SpecConnect == Init /\ [][NextConnect]_vars

\* the llm_query frames with a text
TextQueryFrames == { f \in QueryFrames : f.message = "Hi" }

\* the scenarios in which the store works and the backend answers or cannot
\* be reached
Unreachable == { x \in StoreOk : x[3] \in {"success", "connection_error"} }

\* Two connections next to the heartbeat monitor: the first queries and its
\* peer may go away, the second stays; the store works, the backend answers
\* at once or after a retry, or not at all.
NextBystander ==
    \/ Heartbeat(SessionIds)
    \/ Tick(LongStep)
    \/ ClientDrop("s1")
    \/ \E s \in SessionIds : Connect(s, "u1", TRUE)
    \/ \E s \in SessionIds : Context(s, TRUE, TRUE)
    \/ \E a \in BOOLEAN : ReceiveClosed("s1", a, TRUE)
    \/ Queries({"s1"}, TextQueryFrames, Unreachable)

SpecBystander == Init /\ [][NextBystander]_vars

\* the scenarios in which the store works and the backend answers or
\* rejects the request
Answers == { x \in StoreOk : x[3] \in {"success", "client_error"} }

\* One connection in a conversation of up to MaxTurns queries, one after the
\* other; the context message may not have been written, the store works
\* afterwards, the peer stays.
NextConversation ==
    \/ Connect("s1", "u1", TRUE)
    \/ \E sys_ok \in BOOLEAN : Context("s1", TRUE, sys_ok)
    \/ \E f \in TextQueryFrames, x \in Answers :
           NextQuery("s1", f, x[1], x[2], x[3], x[4], x[5])
    \/ \E x \in Answers : AckProcessing("s1", x[1], x[2], x[3], x[4], x[5])
    \/ AckDelivered("s1")
    \/ SendError("s1")

SpecConversation == Init /\ [][NextConversation]_vars

\* The heartbeat service stopped and started again by a caller that awaits
\* each call, as lifespan does, next to two connections whose peers send
\* nothing; the clock moves in steps of TickStep.
NextService ==
    \/ HbStart
    \/ HbStop
    \/ HbCancelled
    \/ Heartbeat(SessionIds)
    \/ Tick(TickStep)
    \/ \E s \in SessionIds : ClientDrop(s)
    \/ \E s \in SessionIds : Connect(s, None, TRUE)
    \/ \E s \in SessionIds : Context(s, TRUE, TRUE)

SpecService == Init /\ [][NextService]_vars

\* Two connections, each in a conversation of its own, up to MaxQueries
\* queries together; the store works, the backend answers or rejects the
\* request, the peers stay.
NextInterleaved ==
    \/ \E s \in SessionIds : Connect(s, "u1", TRUE)
    \/ \E s \in SessionIds : Context(s, TRUE, TRUE)
    \/ \E s \in SessionIds, f \in TextQueryFrames, x \in Answers :
           SharedQuery(s, f, x[1], x[2], x[3], x[4], x[5])
    \/ \E s \in SessionIds, x \in Answers :
           AckProcessing(s, x[1], x[2], x[3], x[4], x[5])
    \/ \E s \in SessionIds : AckDelivered(s)
    \/ \E s \in SessionIds : SendError(s)

SpecInterleaved == Init /\ [][NextInterleaved]_vars

\* One connection next to the heartbeat monitor; the store works, the backend
\* may fail, and the clock moves in one long stretch.
NextWatched ==
    \/ Heartbeat({"s1"})
    \/ Tick(LongStep)
    \/ Connections({"s1"}, ClientUserIds, {TRUE}, MalformedFrames)
    \/ Queries({"s1"}, PlainQueryFrames, StoreOk)

SpecWatched == Init /\ [][NextWatched]_vars

\* Registry and heartbeat monitor with two connections and no query
\* lifecycle; the clock moves in steps of TickStep.
NextHeartbeat ==
    \/ Heartbeat(SessionIds)
    \/ Tick(TickStep)
    \/ Connections(SessionIds, ClientUserIds \cup {None}, {TRUE}, LivenessFrames)

SpecHeartbeat == Init /\ [][NextHeartbeat]_vars

\* The heartbeat monitor running (main.py starts it with the application)
\* over connections whose peers send no frame at all; the event loop
\* resumes the monitor when its sleep or its send is over, and time passes.
NextSilent ==
    \/ Heartbeat(SessionIds)
    \/ Tick(TickStep)
    \/ \E s \in SessionIds : ClientDrop(s)
    \/ \E s \in SessionIds : Connect(s, None, TRUE)
    \/ \E s \in SessionIds : Context(s, TRUE, TRUE)
    \/ \E s \in SessionIds, a \in BOOLEAN : ReceiveClosed(s, a, TRUE)

SpecSilent ==
    /\ Init
    /\ [][NextSilent]_vars
    /\ WF_vars(HbWake)
    /\ WF_vars(\E sid \in SessionIds : HbPing(sid))
    /\ WF_vars(Tick(TickStep))

\* ------------------------------------------------- a peer that answers pings
\* one iteration of the loop in _send_pings to a peer that answers every ping
\* it gets with a pong frame at once
HbPingAnswered(sid) ==
    /\ HbPingCore(sid)
    /\ pongs' = [pongs EXCEPT ![sid] =
                    IF sid \in DOMAIN manager.active_connections /\ client[sid] = "up"
                    THEN @ + 1 ELSE @]

\* receive_text returns a pong frame of the peer: heartbeat_service.handle_pong
ReadPong(s) ==
    /\ task[s].pc = "recv"
    /\ pongs[s] > 0
    /\ pongs' = [pongs EXCEPT ![s] = @ - 1]
    /\ LET P == handle_pong(manager, pending_pings, s, now)
       IN /\ manager' = P.manager
          /\ pending_pings' = P.pending_pings
    /\ task' = [task EXCEPT ![s].frame = [kind |-> "pong", message |-> "",
                                          message_id |-> None],
                            ![s].nread = @ + 1,
                            ![s].e = "none", ![s].attempt = 0,
                            ![s].last_exception = "none"]
    /\ UNCHANGED << hb, now, client, outbox, db, connection_logs, llm_service,
                    nframes, connected, removed, store_faults >>
    /\ UNCHANGED fan
    /\ UNCHANGED gate
    /\ UNCHANGED context
    /\ UNCHANGED service
    /\ UNCHANGED request

\* client.messages.create is a synchronous call: while it runs nothing else
\* does.  The attempt of s that has just failed kept the event loop for
\* LongStep seconds.
BackendSlow(s) ==
    /\ task[s].pc = "backoff"
    /\ Tick(LongStep)

\* ping_interval seconds pass while the monitor sleeps and no handler has
\* anything to do: the monitor's timer fires on time, a frame that is there
\* is read, and the sends and sleeps of a handler take no such time
TickPrompt ==
    /\ hb.pc = "sleep"
    /\ now + ping_interval <= hb.wake
    /\ \A s \in SessionIds :
           /\ task[s].pc \in {"new", "recv", "ended"}
           /\ ~(task[s].pc = "recv" /\ pongs[s] > 0)
    /\ Tick(ping_interval)

\* One connection whose peer stays, answers every ping and sends queries;
\* the only long stretch of time is a slow backend call.
NextAnswering ==
    \/ HbWake
    \/ HbPingAnswered("s1")
    \/ TickPrompt
    \/ BackendSlow("s1")
    \/ \E u \in ClientUserIds \cup {None} : Connect("s1", u, TRUE)
    \/ Context("s1", TRUE, TRUE)
    \/ ReadPong("s1")
    \/ Queries({"s1"}, PlainQueryFrames, StoreOk)

SpecAnswering == Init /\ [][NextAnswering]_vars

\* ---------------------------------------------- send_to_user, broadcast_json
\* the message a caller fans out
FanFrame == Frame("notice", [text |-> "m"], "fan", 0)

\* (variant of the loop body that gives up after a failed send)
user_send_abort(W, F) ==
    LET sid    == Head(F.todo)
        failed == sid \in DOMAIN W.manager.active_connections
                      /\ client[W.manager.active_connections[sid].websocket] = "gone"
        rest   == IF failed THEN <<>> ELSE Tail(F.todo)
    IN [ W |-> send_to_session(W, sid, FanFrame),
         F |-> [F EXCEPT !.todo = rest,
                         !.pc = IF rest = <<>> THEN "returned" ELSE "user"] ]

\* one pass of the loop `for session_id in session_ids` of send_to_user; the
\* call returns after the last one
user_send(W, F) ==
    [ W |-> send_to_session(W, Head(F.todo), FanFrame),
      F |-> [F EXCEPT !.todo = Tail(@),
                      !.pc = IF Tail(F.todo) = <<>> THEN "returned" ELSE "user"] ]

\* send_to_user(u, m): the copy of the user's list, and the first send
SendToUserCall(u) ==
    /\ fan.pc = "idle"
    /\ IF u \in DOMAIN manager.user_connections
       THEN LET session_ids == manager.user_connections[u]
                R == user_send(World, [fan EXCEPT !.call = "send_to_user",
                                                  !.todo = session_ids,
                                                  !.initial = Range(session_ids)])
            IN Commit(R.W) /\ fan' = R.F
       ELSE /\ fan' = [fan EXCEPT !.call = "send_to_user", !.pc = "returned"]
            /\ UNCHANGED << manager, outbox, removed >>
    /\ UNCHANGED << pending_pings, hb, now, client, task, db, connection_logs,
                    llm_service, nframes, connected, store_faults, pongs, gate, context, request, service >>

\* send_to_user resumes after a send and goes on with the next session id
SendToUserStep ==
    /\ fan.pc = "user"
    /\ LET R == user_send(World, fan)
       IN Commit(R.W) /\ fan' = R.F
    /\ UNCHANGED << pending_pings, hb, now, client, task, db, connection_logs,
                    llm_service, nframes, connected, store_faults, pongs, gate, context, request, service >>

\* the body of the loop of broadcast_json for the entry of session_id: the
\* send goes to the connection's websocket directly; a failure is noted
broadcast_send(W, F, session_id) ==
    LET websocket == W.manager.active_connections[session_id].websocket
    IN IF client[websocket] = "up"
       THEN [ W |-> [W EXCEPT !.outbox = Transmit(@, websocket, FanFrame)],
              F |-> [F EXCEPT !.visited = @ \cup {session_id}, !.pc = "broadcast"] ]
       ELSE [ W |-> W,
              F |-> [F EXCEPT !.visited = @ \cup {session_id}, !.pc = "broadcast",
                              !.disconnected_sessions = @ \cup {session_id}] ]

\* the iteration is over: disconnect_session for the noted sessions, return
broadcast_finish(W, F) ==
    [ W |-> [W EXCEPT !.manager = DisconnectAll(@, F.disconnected_sessions),
                      !.removed = @ \cup (F.disconnected_sessions
                                            \cap DOMAIN W.manager.active_connections)],
      F |-> [F EXCEPT !.pc = "returned"] ]

\* the iterator of `self.active_connections.items()` is asked for its next
\* entry: RuntimeError when the dict has another size than at the start (the
\* error leaves broadcast_json), otherwise an entry not yet yielded (the order
\* of the dict is not modelled), or the end of the loop
broadcast_next(W, F, session_id) ==
    LET rest == DOMAIN W.manager.active_connections \ F.visited
    IN IF Cardinality(DOMAIN W.manager.active_connections) # F.used
       THEN [ W |-> W, F |-> [F EXCEPT !.pc = "raised"] ]
       ELSE IF rest = {} THEN broadcast_finish(W, F)
       ELSE IF session_id \in rest THEN broadcast_send(W, F, session_id)
       ELSE [ W |-> W, F |-> F ]

\* broadcast_json(m) up to its first send
BroadcastCall(session_id) ==
    /\ fan.pc = "idle"
    /\ LET F0 == [fan EXCEPT !.call = "broadcast_json",
                             !.used = Cardinality(DOMAIN manager.active_connections),
                             !.initial = DOMAIN manager.active_connections]
           R  == broadcast_next(World, F0, session_id)
       IN /\ R.F # F0
          /\ Commit(R.W)
          /\ fan' = R.F
    /\ UNCHANGED << pending_pings, hb, now, client, task, db, connection_logs,
                    llm_service, nframes, connected, store_faults, pongs, gate, context, request, service >>

\* broadcast_json resumes after a send
BroadcastStep(session_id) ==
    /\ fan.pc = "broadcast"
    /\ LET R == broadcast_next(World, fan, session_id)
       IN /\ R.F # fan
          /\ Commit(R.W)
          /\ fan' = R.F
    /\ UNCHANGED << pending_pings, hb, now, client, task, db, connection_logs,
                    llm_service, nframes, connected, store_faults, pongs, gate, context, request, service >>

\* Two connections, the monitor and one caller of send_to_user or of
\* broadcast_json; the peers send no frame.
NextFanout ==
    \/ Heartbeat(SessionIds)
    \/ Tick(LongStep)
    \/ \E s \in SessionIds : ClientDrop(s)
    \/ \E s \in SessionIds, u \in ClientUserIds \cup {None} : Connect(s, u, TRUE)
    \/ \E s \in SessionIds : Context(s, TRUE, TRUE)
    \/ \E s \in SessionIds, a \in BOOLEAN : ReceiveClosed(s, a, TRUE)
    \/ \E u \in ClientUserIds : SendToUserCall(u)
    \/ SendToUserStep
    \/ \E s \in SessionIds : BroadcastCall(s)
    \/ \E s \in SessionIds : BroadcastStep(s)

SpecFanout == Init /\ [][NextFanout]_vars

\* ------------------------------------------- calendar_service, gather_context
\* seconds of a day
Day == 86400

\* the value of a DTSTART / DTEND property of a VEVENT: a datetime (seconds,
\* UTC), a date (days), or the property is missing
DateTimeProp(t) == [type |-> "datetime", v |-> t]
DateProp(d) == [type |-> "date", v |-> d]
NoProp == [type |-> "none", v |-> 0]

VEvent(summary, dtstart, dtend) ==
    [summary |-> summary, dtstart |-> dtstart, dtend |-> dtend]

\* dtstart: a date becomes the first instant of that day
StartOf(prop) == IF prop.type = "date" THEN prop.v * Day ELSE prop.v

\* dtend: a date becomes the last instant of that day (datetime.max.time())
EndOf(prop) == IF prop.type = "date" THEN prop.v * Day + (Day - 1) ELSE prop.v

CalendarEvent(component) ==
    [ summary |-> component.summary,
      start_time |-> StartOf(component.dtstart),
      end_time |-> EndOf(component.dtend) ]

\* events.sort(key=lambda e: e.start_time): a stable sort
RECURSIVE InsertByStart(_, _)
InsertByStart(e, sorted) ==
    IF sorted = <<>> THEN <<e>>
    ELSE IF sorted[Len(sorted)].start_time <= e.start_time THEN Append(sorted, e)
    ELSE Append(InsertByStart(e, SubSeq(sorted, 1, Len(sorted) - 1)), sorted[Len(sorted)])

RECURSIVE SortByStart(_)
SortByStart(events) ==
    IF events = <<>> THEN <<>>
    ELSE InsertByStart(events[Len(events)], SortByStart(SubSeq(events, 1, Len(events) - 1)))

\* get_calendar_events at time t for the VEVENT components of the feed: the
\* components with both properties whose end is after t, sorted by start;
\* every error gives the empty list
get_calendar_events(feed, http_ok, t) ==
    IF ~http_ok THEN <<>>
    ELSE LET complete == SelectSeq(feed, LAMBDA c : c.dtstart.type # "none"
                                                    /\ c.dtend.type # "none")
             upcoming == SelectSeq(complete, LAMBDA c : EndOf(c.dtend) > t)
         IN SortByStart([i \in DOMAIN upcoming |-> CalendarEvent(upcoming[i])])

\* the result of one of the two coroutines given to asyncio.gather
Returned(value) == [raised |-> FALSE, value |-> value]
Raised == [raised |-> TRUE, value |-> <<>>]

NoWeather == [kind |-> "null"]

\* (variant without the except clause)
get_weather_with_timeout_raise(outcome, weather_data) ==
    IF outcome = "ok"
    THEN Returned([kind |-> "weather", current |-> weather_data.current,
                   location |-> weather_data.location])
    ELSE Raised

\* get_weather_with_timeout: the weather dict, None after an error or when
\* wait_for gives up after 3 s
get_weather_with_timeout(outcome, weather_data) ==
    IF outcome = "ok"
    THEN Returned([kind |-> "weather", current |-> weather_data.current,
                   location |-> weather_data.location])
    ELSE Returned(NoWeather)

\* get_calendar_with_timeout: the first CALENDAR_LIMIT events, [] after an
\* error or when wait_for gives up after 2 s
get_calendar_with_timeout(outcome, calendar_events) ==
    IF outcome = "ok"
    THEN Returned(SubSeq(calendar_events, 1,
                         IF Len(calendar_events) < CALENDAR_LIMIT
                         THEN Len(calendar_events) ELSE CALENDAR_LIMIT))
    ELSE Returned(<<>>)

\* gather_context: asyncio.gather hands on the first exception of its
\* coroutines; otherwise the LLMContext is built
gather_context(weather, calendar, t) ==
    IF weather.raised \/ calendar.raised THEN [raised |-> TRUE]
    ELSE [ raised |-> FALSE,
           current_time |-> t,
           location |-> IF weather.value # NoWeather /\ weather.value.location # ""
                        THEN weather.value.location ELSE "Des Moines, Iowa",
           weather_data |-> weather.value,
           calendar_events |-> calendar.value ]

\* what get_weather_data may return
WeatherReports ==
    { [current |-> [temp |-> 70], location |-> l] : l \in {"", "Ames"} }

\* what a fetch may end with: in time, with an error, not within the timeout
FetchOutcomes == {"ok", "error", "timeout"}

\* VEVENT components: over at 300, over at 900, all day on day -1 (DTEND is
\* the date of day 0), all day on day 0, without DTEND
Components ==
    { VEvent("early", DateTimeProp(0), DateTimeProp(300)),
      VEvent("late", DateTimeProp(600), DateTimeProp(900)),
      VEvent("long", DateTimeProp(-300), DateTimeProp(900)),
      VEvent("yesterday", DateProp(-1), DateProp(0)),
      VEvent("open", DateTimeProp(0), NoProp) }

RECURSIVE Seqs(_, _)
Seqs(S, n) ==
    IF n = 0 THEN {<<>>}
    ELSE LET shorter == Seqs(S, n - 1)
         IN shorter \cup { Append(q, x) : q \in { r \in shorter : Len(r) = n - 1 }, x \in S }

\* n components of one event that is not over
Padding(n) == [i \in 1 .. n |-> VEvent("pad", DateTimeProp(300), DateTimeProp(1200))]

\* feeds: up to MaxEvents components, alone or after padding that fills the
\* limit but for one
Feeds ==
    { Padding(n) \o q : n \in {0, CALENDAR_LIMIT - 1}, q \in Seqs(Components, MaxEvents) }

\* the call of gather_context, at the time `now` (what a failed fetch would
\* have brought is left open)
GatherContext(weather_outcome, weather_data, calendar_outcome, http_ok, feed) ==
    /\ ~context.called
    /\ (calendar_outcome # "ok" \/ ~http_ok) => feed = <<>>
    /\ weather_outcome # "ok" => weather_data.location = ""
    /\ LET calendar_events == get_calendar_events(feed, http_ok, now)
           weather  == get_weather_with_timeout(weather_outcome, weather_data)
           calendar == get_calendar_with_timeout(calendar_outcome, calendar_events)
       IN context' = [ called |-> TRUE, feed |-> feed, fetch_time |-> now,
                       weather_outcome |-> weather_outcome,
                       weather_report |-> weather_data,
                       calendar_outcome |-> IF http_ok THEN calendar_outcome
                                            ELSE "error",
                       result |-> gather_context(weather, calendar, now) ]
    /\ UNCHANGED << manager, pending_pings, hb, now, client, task, outbox, db,
                    connection_logs, llm_service, nframes, connected, removed,
                    store_faults, pongs, fan, gate, request, service >>

\* One call of gather_context, with every outcome of the two fetches and at
\* several times.
NextContext ==
    \/ Tick(TickStep)
    \/ /\ ~context.called
       /\ \E wo, co \in FetchOutcomes, wd \in WeatherReports, h \in BOOLEAN, f \in Feeds :
              GatherContext(wo, wd, co, h, f)

SpecContext == Init /\ [][NextContext]_vars

\* --------------------------------------------------------- rate limiter
\* a call passes the limiter at time t, with or without a reset of the
\* limiter: a reset when the running minute is over opens a new minute; the
\* call is counted in the minute that is running (a call that passes without
\* reset when the minute is over is not counted at all)
Admit(G, t, reset) ==
    IF t - G.window_start < 60 THEN [G EXCEPT !.admitted = @ + 1]
    ELSE IF reset THEN [G EXCEPT !.window_start = t, !.admitted = 1]
    ELSE G

\* generate_response of a query of session s reaches `await
\* self._check_rate_limit()`: the window is reset when it is over; at the
\* ceiling the caller sleeps for the rest of the window, otherwise the
\* request is counted and goes on to the backend (no further call is
\* followed once a counter has passed the ceiling)
RateLimitCall(s) ==
    /\ gate.wake[s] < 0
    /\ llm_service.request_count <= max_requests_per_minute
    /\ gate.admitted <= max_requests_per_minute
    /\ IF RateLimitSleeps(llm_service, now)
       THEN LET start == IF now - llm_service.request_window_start > 60
                         THEN now ELSE llm_service.request_window_start
            IN /\ llm_service' = [ request_count |-> llm_service.request_count,
                                   request_window_start |-> start ]
               /\ gate' = [gate EXCEPT !.wake[s] = start + 60]
       ELSE /\ llm_service' = check_rate_limit(llm_service, now)
            /\ gate' = Admit(gate, now, now - llm_service.request_window_start > 60)
    /\ UNCHANGED << manager, pending_pings, hb, now, client, task, outbox, db,
                    connection_logs, nframes, connected, removed, store_faults,
                    pongs, fan, context, request, service >>

\* the sleep of _check_rate_limit is over: the counter and the window start
\* over, and the request is counted
RateLimitWake(s) ==
    /\ gate.wake[s] >= 0
    /\ now >= gate.wake[s]
    /\ llm_service' = [ request_count |-> 0 + 1, request_window_start |-> now ]
    /\ gate' = [Admit(gate, now, TRUE) EXCEPT !.wake[s] = -1]
    /\ UNCHANGED << manager, pending_pings, hb, now, client, task, outbox, db,
                    connection_logs, nframes, connected, removed, store_faults,
                    pongs, fan, context, request, service >>

\* time passes in steps of half a window
RateLimitTick ==
    /\ now + ping_interval <= MaxWindows * 60
    /\ Tick(ping_interval)

\* The callers of generate_response and the clock.
NextRateLimit ==
    \/ \E s \in SessionIds : RateLimitCall(s)
    \/ \E s \in SessionIds : RateLimitWake(s)
    \/ RateLimitTick

SpecRateLimit == Init /\ [][NextRateLimit]_vars

\* ================================================================ properties
UserIds == ClientUserIds \cup { DefaultUser(s) : s \in SessionIds }

Registered(s) == s \in DOMAIN manager.active_connections

\* the positions at which sid is listed in the bucket of user u
Listed(u, sid) ==
    IF u \in DOMAIN manager.user_connections
    THEN { i \in DOMAIN manager.user_connections[u] :
               manager.user_connections[u][i] = sid }
    ELSE {}

\* the heartbeat monitor removed s: it is gone from the registry although its
\* peer is there and its handler is running
Evicted(s) ==
    /\ s \in connected
    /\ ~Registered(s)
    /\ client[s] = "up"
    /\ task[s].pc # "ended"

\* C1: get_connection_count() is the number of sessions that were connected
\* and have not been removed since, and no key of user_connections maps to
\* an empty list.
C1_CountAndBuckets ==
    /\ get_connection_count(manager) = Cardinality(connected \ removed)
    /\ \A u \in DOMAIN manager.user_connections :
           manager.user_connections[u] # <<>>

\* two sessions of one user were connected and one of them has been removed
C1_Witness ==
    /\ connected = SessionIds
    /\ Cardinality(removed) = 1
    /\ \E u \in ClientUserIds :
           /\ u \in DOMAIN manager.user_connections
           /\ Len(manager.user_connections[u]) = 1

\* C2: a session id is listed under user u in user_connections exactly when
\* it is a key of active_connections whose Connection has user_id u, and it
\* is listed once, whatever the interleaving of connects, disconnects and
\* heartbeat evictions.
C2_IndexesAgree ==
    \A u \in UserIds, sid \in SessionIds :
        /\ Listed(u, sid) # {}
             <=> (Registered(sid) /\ manager.active_connections[sid].user_id = u)
        /\ Cardinality(Listed(u, sid)) <= 1

\* the monitor evicted one session of a user while another session of the
\* same user stays listed
C2_Witness ==
    \E s, t \in SessionIds, u \in ClientUserIds :
        /\ s # t
        /\ Evicted(s)
        /\ Registered(t)
        /\ Listed(u, t) # {}
        /\ Listed(u, s) = {}
        /\ outbox[s] # <<>>
        /\ outbox[s][1].event_type = "status_update"
        /\ outbox[s][1].payload.user_id = u

\* s leaves the registry in the step in which _check_timeouts runs, and not
\* through a failed ping of that step
Reaped(s) ==
    /\ hb.pc = "ping"
    /\ hb'.pc = "sleep"
    /\ Registered(s)
    /\ s \notin DOMAIN manager'.active_connections
    /\ ~(s \in hb.queue /\ client[s] = "gone")

\* C10: the reap phase never removes a connection for which the time since
\* its last_ping is at most timeout_threshold.
C10_NoEarlyEviction ==
    [][ \A s \in SessionIds :
            Reaped(s) => now - manager.active_connections[s].last_ping
                             > timeout_threshold ]_vars

\* a reap has just run over a pinged connection that never answered and whose
\* last_ping is exactly timeout_threshold old: it is still registered
C10_Witness ==
    \E s \in SessionIds :
        /\ hb.pc = "sleep"
        /\ hb.wake = now + ping_interval
        /\ Registered(s)
        /\ s \in DOMAIN pending_pings
        /\ pending_pings[s] = now
        /\ now - manager.active_connections[s].last_ping = timeout_threshold

\* ------------------------------------------------- message lifecycle frames
\* the frames that handler s got onto its own wire while processing its q-th
\* inbound frame
LifecycleFrames(s, q) ==
    SelectSeq(outbox[s], LAMBDA f : f.origin = s /\ f.q = q)

\* what a frame is, for the purpose of comparing sequences of frames
Kind(f) ==
    IF f.event_type = "message_ack" THEN f.payload.status
    ELSE IF f.event_type = "error" /\ "error_type" \in DOMAIN f.payload
    THEN f.payload.error_type
    ELSE f.event_type

Kinds(fs) == [ i \in DOMAIN fs |-> Kind(fs[i]) ]

\* the statuses of the message_ack frames of the q-th inbound frame of s
Acks(s, q) ==
    Kinds(SelectSeq(LifecycleFrames(s, q), LAMBDA f : f.event_type = "message_ack"))

TerminalAcks(s, q) ==
    SelectSeq(Acks(s, q), LAMBDA st : st \in {"delivered", "error"})

IsPrefix(a, b) == Len(a) <= Len(b) /\ a = SubSeq(b, 1, Len(a))

\* handler s has read an llm_query and is through with it
QueryDone(s) ==
    /\ task[s].pc \in {"recv", "ended"}
    /\ task[s].frame.kind = "llm_query"

\* the whole sequence is there for the current query with a message_id
Tracked(s) == task[s].frame.kind = "llm_query" /\ task[s].frame.message_id # None

\* C3 as stated: every llm_query with a message_id ends with exactly one
\* terminal acknowledgement, whatever the message text and the outcomes.
C3_AlwaysOneTerminalAck ==
    \A s \in SessionIds :
        (QueryDone(s) /\ Tracked(s)) => Len(TerminalAcks(s, task[s].nread)) = 1

\* C3: no query is ever sent more than one terminal acknowledgement
\* (delivered or error), and a query with a message_id and a non-empty
\* message whose session is still registered when the lifecycle is over has
\* been sent exactly one, for every outcome of persistence and generation.
C3_OneTerminalAck ==
    \A s \in SessionIds :
        /\ \A q \in 1..task[s].nread : Len(TerminalAcks(s, q)) <= 1
        /\ (QueryDone(s) /\ Tracked(s) /\ ~NoMessage(task[s].frame.message)
                /\ Registered(s))
             => Len(TerminalAcks(s, task[s].nread)) = 1

\* the user row could not be written and the query ended with the error
\* acknowledgement
C3_Witness ==
    \E s \in SessionIds :
        /\ QueryDone(s) /\ Tracked(s) /\ Registered(s)
        /\ <<s, task[s].nread, task[s].frame.message>> \in store_faults
        /\ TerminalAcks(s, task[s].nread) = <<"error">>

\* C4: the acknowledgements a query with a message_id is sent form a prefix
\* of received, processing, terminal, where terminal is delivered or error.
C4_AckOrder ==
    \A s \in SessionIds :
        \A q \in 1..task[s].nread :
            \/ IsPrefix(Acks(s, q), <<"received", "processing", "delivered">>)
            \/ IsPrefix(Acks(s, q), <<"received", "processing", "error">>)

\* the monitor evicted the session during the retry sleep: the sequence stops
\* after processing
C4_Witness ==
    \E s \in SessionIds :
        /\ QueryDone(s) /\ Tracked(s) /\ Evicted(s)
        /\ Acks(s, task[s].nread) = <<"received", "processing">>

\* a frame of the message lifecycle
IsLifecycleFrame(f) ==
    \/ f.event_type \in {"message_ack", "llm_response"}
    \/ f.event_type = "error" /\ Kind(f) \in {"validation_error", "llm_error"}

\* C5: acknowledgements, llm_response frames and lifecycle error frames reach
\* only the session that submitted the query, not another session of the
\* same user.
C5_OnlySubmitter ==
    \A t \in SessionIds :
        \A i \in DOMAIN outbox[t] :
            IsLifecycleFrame(outbox[t][i]) => outbox[t][i].origin = t

\* two registered sessions of one user, one of them got a whole lifecycle
C5_Witness ==
    \E s, t \in SessionIds, u \in ClientUserIds :
        /\ s # t
        /\ Listed(u, s) # {} /\ Listed(u, t) # {}
        /\ Kinds(LifecycleFrames(s, task[s].nread))
               = <<"received", "processing", "llm_response", "delivered">>
        /\ outbox[t] # <<>>

\* C6 as stated: a client that connects and sends llm_query "Hi" with
\* message_id "m1" while store and backend work gets received, processing,
\* the llm_response with inReplyTo "m1", delivered; the session then has one
\* user, one assistant and one system row.
C6_EndToEnd ==
    \A s \in SessionIds :
        ( /\ task[s].pc = "recv"
          /\ task[s].nread = 1
          /\ task[s].frame = [kind |-> "llm_query", message |-> "Hi", message_id |-> "m1"]
          /\ task[s].e = "none"
          /\ task[s].attempt = 0
          /\ store_faults = {}
          /\ Registered(s) )
        => LET fs == LifecycleFrames(s, 1)
           IN /\ Kinds(fs) = <<"received", "processing", "llm_response", "delivered">>
              /\ "in_reply_to" \in DOMAIN fs[3].payload
              /\ fs[3].payload.in_reply_to = "m1"
              /\ [ i \in DOMAIN db[s] |-> db[s][i].role ]
                     = <<"system", "user", "assistant">>

\* the current query failed in generate_response
GenerationFailed(s) ==
    task[s].frame.kind = "llm_query" /\ task[s].e \in ApiOutcomes \ {"success"}

\* C7: when generation fails, one assistant row recording the error is
\* written (the store permitting), no llm_response and no delivered
\* acknowledgement is sent, a session that is still registered gets the error
\* acknowledgement (with a message_id) and then the llm_error frame, and the
\* handler goes back to reading frames.
C7_GenerationFailure ==
    \A s \in SessionIds :
        GenerationFailed(s) =>
            LET q  == task[s].nread
                ks == Kinds(LifecycleFrames(s, q))
                n  == Len(db[s])
            IN /\ \A i \in DOMAIN ks : ks[i] \notin {"llm_response", "delivered"}
               /\ <<s, q, "Error">> \notin store_faults
                    => /\ n >= 2
                       /\ db[s][n] = ChatMessage("assistant", "Error")
                       /\ db[s][n - 1] = ChatMessage("user", task[s].frame.message)
               /\ client[s] = "up" => task[s].pc \in {"send_error", "recv"}
               /\ (Registered(s) /\ task[s].pc = "recv")
                    => ks = IF Tracked(s)
                            THEN <<"received", "processing", "error", "llm_error">>
                            ELSE <<"llm_error">>

\* generation failed for a query with a message_id; the error row, the error
\* acknowledgement and the llm_error frame are there and the handler reads on
C7_Witness ==
    \E s \in SessionIds :
        /\ GenerationFailed(s) /\ Tracked(s) /\ Registered(s)
        /\ task[s].pc = "recv"
        /\ db[s][Len(db[s])] = ChatMessage("assistant", "Error")
        /\ Kinds(LifecycleFrames(s, task[s].nread))
               = <<"received", "processing", "error", "llm_error">>

\* empty or whitespace-only
IsBlank(message) == message \in {"", " "}

\* C8 as stated: an llm_query whose message is empty or whitespace-only gets
\* one validation_error frame and has no other effect: no acknowledgement,
\* no row, no generation.
C8_BlankRejected ==
    \A s \in SessionIds :
        ( /\ task[s].frame.kind = "llm_query"
          /\ IsBlank(task[s].frame.message)
          /\ Registered(s)
          /\ client[s] = "up" )
        => /\ Kinds(LifecycleFrames(s, task[s].nread)) = <<"validation_error">>
           /\ task[s].pc = "recv"
           /\ \A i \in DOMAIN db[s] : db[s][i].role # "user"
           /\ llm_service.request_count = 0

\* handler s reads a frame that is a protocol error while its peer is there
ReadsProtocolError(s) ==
    /\ task[s].pc = "recv"
    /\ client[s] = "up"
    /\ task'[s].nread = task[s].nread + 1
    /\ task'[s].frame.kind \in ProtocolErrorKinds

\* C9: a frame that is not valid JSON, lacks event_type or payload, or has an
\* unknown event_type makes the handler send exactly one error frame to the
\* same connection; the registry is untouched and the handler reads on.
C9_ProtocolError ==
    [][ \A s \in SessionIds :
            ReadsProtocolError(s) =>
                /\ Len(outbox'[s]) = Len(outbox[s]) + 1
                /\ SubSeq(outbox'[s], 1, Len(outbox[s])) = outbox[s]
                /\ outbox'[s][Len(outbox'[s])].event_type = "error"
                /\ \A t \in SessionIds \ {s} : outbox'[t] = outbox[t]
                /\ manager' = manager
                /\ task'[s].pc = "recv" ]_vars

\* a registered session has been sent the error frame for its malformed
\* frame and is reading again
C9_Witness ==
    \E s \in SessionIds :
        /\ task[s].frame.kind \in ProtocolErrorKinds
        /\ task[s].pc = "recv"
        /\ Registered(s)
        /\ Kinds(LifecycleFrames(s, task[s].nread)) = <<"error">>

\* ------------------------------------------------------------ heartbeat
\* the time since the last_ping of a registered session
Elapsed(s) == now - manager.active_connections[s].last_ping

\* the step in which _check_timeouts runs over a non-empty registry
ReapStep == hb.pc = "ping" /\ hb'.pc = "sleep"

\* C11: a connection that answers no ping and sends none is evicted: every
\* reap removes the sessions whose last_ping is more than timeout_threshold
\* old, and a session whose timeout falls within the time observed
\* eventually leaves the registry.
C11_SilentEvicted ==
    /\ [][ ReapStep =>
             \A s \in SessionIds :
                 (Registered(s) /\ Elapsed(s) > timeout_threshold)
                     => s \notin DOMAIN manager'.active_connections ]_vars
    /\ \A s \in SessionIds :
           (Registered(s)
               /\ manager.active_connections[s].last_ping + timeout_threshold < MaxTime)
             ~> ~Registered(s)

\* the reap that has just run evicted a session whose peer is there
C11_Witness ==
    \E s \in SessionIds :
        /\ Evicted(s)
        /\ s \in removed
        /\ hb.pc = "sleep"
        /\ hb.wake = now + ping_interval
        /\ now > timeout_threshold

\* C12: a connection whose peer answers every ping with a pong is never
\* evicted by the monitor, whatever else it sends in between.
C12_AnsweringNeverEvicted ==
    \A s \in SessionIds : ~Evicted(s)

\* ------------------------------------------------------------- registry
\* C13: disconnect_session of a session id that is not registered and
\* disconnect of a transport that is not registered leave both indexes and
\* the connection count as they are, and disconnecting a session a second
\* time changes nothing more.
C13_DisconnectIdempotent ==
    \A sid \in SessionIds :
        LET once_s == disconnect_session(manager, sid)
            once_w == disconnect(manager, sid)
        IN /\ ~Registered(sid) =>
                  /\ once_s = manager
                  /\ once_w = manager
                  /\ get_connection_count(once_s) = get_connection_count(manager)
                  /\ get_connection_count(once_w) = get_connection_count(manager)
           /\ disconnect_session(once_s, sid) = once_s
           /\ disconnect(once_w, sid) = once_w
           /\ disconnect(once_s, sid) = once_s

\* a session that a failed send has already removed, its handler about to
\* call disconnect for it, while another session is registered
C13_Witness ==
    \E s, t \in SessionIds :
        /\ s \in removed /\ ~Registered(s)
        /\ task[s].pc = "recv" /\ client[s] = "gone"
        /\ Registered(t)

\* some frame to send
Probe == Frame("status_update", [status |-> "idle"], "probe", 0)

\* the positions at which sid is listed in the bucket of user u in registry M
ListedIn(M, u, sid) ==
    IF u \in DOMAIN M.user_connections
    THEN { i \in DOMAIN M.user_connections[u] : M.user_connections[u][i] = sid }
    ELSE {}

\* session t is registered in M exactly as it is in the current registry
SameRegistration(M, t) ==
    /\ Registered(t) <=> t \in DOMAIN M.active_connections
    /\ Registered(t) => M.active_connections[t] = manager.active_connections[t]
    /\ \A u \in UserIds : (ListedIn(M, u, t) # {}) <=> (Listed(u, t) # {})

\* C14: send_to_session whose transport send fails removes the target
\* session from active_connections and from user_connections, leaves every
\* other session registered as it was and delivers nothing; for a session id
\* that is not registered it does nothing.
C14_SendToSessionHeals ==
    \A sid \in SessionIds :
        LET W == send_to_session(World, sid, Probe)
        IN /\ ~Registered(sid) => W = World
           /\ (Registered(sid) /\ client[manager.active_connections[sid].websocket] = "gone")
                => /\ sid \notin DOMAIN W.manager.active_connections
                   /\ \A u \in UserIds : ListedIn(W.manager, u, sid) = {}
                   /\ \A t \in SessionIds \ {sid} : SameRegistration(W.manager, t)
                   /\ W.outbox = outbox

\* the ping to a session whose peer is gone has failed and removed it from
\* the bucket it shared with a session that is still registered
C14_Witness ==
    \E s, t \in SessionIds, u \in ClientUserIds :
        /\ s # t
        /\ client[s] = "gone" /\ task[s].pc = "recv"
        /\ s \in removed /\ ~Registered(s)
        /\ s \in DOMAIN pending_pings
        /\ outbox[s] # <<>> /\ outbox[s][1].payload.user_id = u
        /\ Registered(t) /\ Listed(u, t) # {}

\* ------------------------------------------------------------- fan-out
\* how often the fanned-out message reached the wire of session t
FanCount(t) == Len(SelectSeq(outbox[t], LAMBDA f : f.origin = "fan"))

UserCallReturned == fan.call = "send_to_user" /\ fan.pc = "returned"

C16_BroadcastCompletes ==
    /\ fan.pc # "raised"
    /\ (fan.call = "broadcast_json" /\ fan.pc = "returned") =>
           \A t \in fan.initial :
               (Registered(t) /\ client[t] = "up") => FanCount(t) = 1

\* ------------------------------------------------------------- retry loop
\* the classifications the retry policy names
Transient == {"rate_limited", "connection_error"}

\* the response of the current query is on the wire of s
Responded(s) ==
    \E i \in DOMAIN outbox[s] :
        outbox[s][i].event_type = "llm_response" /\ outbox[s][i].q = task[s].nread

\* the retry loop of the current query of s ended with a backend error
CallFailed(s) == task[s].frame.kind = "llm_query" /\ task[s].e \in ApiOutcomes

\* C17: the retry loop makes at most retry_attempts backend calls; a
\* successful call ends it (no further call follows the response); when it
\* ends with an error that it retries, all retry_attempts calls were made and
\* the error raised is the one of the last call.
C17_RetryBound ==
    \A s \in SessionIds :
        /\ task[s].attempt \in 0 .. retry_attempts - 1
        /\ task[s].pc = "backoff" =>
               /\ task[s].attempt >= 1
               /\ task[s].e = "none"
               /\ ~Responded(s)
        /\ (CallFailed(s) /\ Retried(task[s].e)) =>
               /\ task[s].attempt = retry_attempts - 1
               /\ task[s].e = task[s].last_exception

\* two calls failed with an error that is retried (the second one
\* rate_limited), the third call succeeded and its response went out
C17_Witness ==
    \E s \in SessionIds :
        /\ task[s].attempt = retry_attempts - 1
        /\ task[s].last_exception = "rate_limited"
        /\ task[s].e = "none"
        /\ Responded(s)

\* C18: a client_error ends the retry loop at once: it is never the error
\* the loop sleeps on or keeps for a later pass, and the call has failed with
\* it in the pass in which it occurred.
C18_ClientErrorFinal ==
    \A s \in SessionIds :
        /\ task[s].last_exception # "client_error"
        /\ task[s].e = "client_error" =>
               /\ task[s].pc \in {"send_error", "recv", "ended"}
               /\ task[s].last_exception = "none" <=> task[s].attempt = 0

\* the first call was answered with client_error and the query failed
\* without a second call
C18_Witness ==
    \E s \in SessionIds :
        /\ task[s].e = "client_error"
        /\ task[s].attempt = 0
        /\ task[s].pc \in {"send_error", "recv"}

\* C19 as stated: the loop sleeps for a further call only after a failure
\* classified rate_limited or connection_error.
C19_OnlyTransientRetried ==
    \A s \in SessionIds :
        task[s].pc = "backoff" => task[s].last_exception \in Transient

\* --------------------------------------------------------- rate limiter
\* C20 as stated: during one minute that began with a reset of the limiter at
\* most max_requests_per_minute requests pass it, also when several callers
\* were asleep in it at the same time.
C20_WindowBound == gate.admitted <= max_requests_per_minute

\* ------------------------------------------------------- context bundle
\* what the calendar coroutine yields for the feed when its fetch succeeds
CalendarPortion(feed, t) ==
    get_calendar_with_timeout("ok", get_calendar_events(feed, TRUE, t)).value

\* C21: gather_context always returns a bundle; when the weather fetch fails
\* or times out weather_data is null and calendar_events is what the
\* calendar fetch gave, when the calendar fetch fails or times out
\* calendar_events is empty and weather_data is what the weather fetch gave.
C21_BundleAlways ==
    context.called =>
        /\ ~context.result.raised
        /\ context.weather_outcome # "ok" =>
               /\ context.result.weather_data = NoWeather
               /\ context.calendar_outcome = "ok" =>
                      context.result.calendar_events
                          = CalendarPortion(context.feed, context.fetch_time)
        /\ context.calendar_outcome # "ok" =>
               /\ context.result.calendar_events = <<>>
               /\ context.weather_outcome = "ok" =>
                      /\ context.result.weather_data # NoWeather
                      /\ context.result.weather_data.current
                             = context.weather_report.current

\* the weather fetch timed out, the bundle has no weather and two events
C21_Witness ==
    /\ context.called
    /\ context.weather_outcome = "timeout"
    /\ context.calendar_outcome = "ok"
    /\ ~context.result.raised
    /\ context.result.weather_data = NoWeather
    /\ Len(context.result.calendar_events) = 2

\* the instant an event is over: the DTEND of an event given by dates is the
\* day after its last day, so the event is over when that day begins
OverAt(component) ==
    IF component.dtend.type = "date" THEN component.dtend.v * Day
    ELSE component.dtend.v

\* the components of the feed with both properties that are not over at t
NotOver(feed, t) ==
    SelectSeq(feed, LAMBDA c : c.dtstart.type # "none" /\ c.dtend.type # "none"
                                 /\ OverAt(c) > t)

\* C22 as stated: the calendar portion holds exactly the fetched events that
\* end strictly after the fetch time, ascending by start time, cut to the
\* first CALENDAR_LIMIT of that order; no event that is over is in it.
C22_UpcomingOnly ==
    (context.called /\ context.calendar_outcome = "ok") =>
        LET out  == context.result.calendar_events
            want == NotOver(context.feed, context.fetch_time)
        IN /\ Len(out) = IF Len(want) < CALENDAR_LIMIT THEN Len(want)
                         ELSE CALENDAR_LIMIT
           /\ \A i \in DOMAIN out :
                  \E j \in DOMAIN want :
                      /\ want[j].summary = out[i].summary
                      /\ StartOf(want[j].dtstart) = out[i].start_time
           /\ \A i, j \in DOMAIN out :
                  i < j => out[i].start_time <= out[j].start_time
           /\ \A j \in DOMAIN want :
                  \/ \E i \in DOMAIN out : out[i].summary = want[j].summary
                  \/ \A i \in DOMAIN out :
                         out[i].start_time <= StartOf(want[j].dtstart)

\* ------------------------------------------------- queries without message_id
\* the current frame of s is an llm_query without message_id
Untracked(s) == task[s].frame.kind = "llm_query" /\ task[s].frame.message_id = None

\* C23: for an llm_query without message_id no message_ack is sent; the
\* lifecycle sends at most one frame: llm_response when it succeeds, an
\* error frame when it fails (or when the message is empty), and a session
\* that is still registered gets that frame.
C23_NoAckWithoutId ==
    \A s \in SessionIds :
        Untracked(s) =>
            LET ks == Kinds(LifecycleFrames(s, task[s].nread))
            IN /\ Acks(s, task[s].nread) = <<>>
               /\ ks \in {<<>>, <<"llm_response">>, <<"llm_error">>,
                          <<"validation_error">>}
               /\ ks = <<"llm_response">> => task[s].e = "none"
               /\ ks = <<"llm_error">> => task[s].e # "none"
               /\ ks = <<"validation_error">> => NoMessage(task[s].frame.message)
               /\ (QueryDone(s) /\ Registered(s)) =>
                      ks = IF NoMessage(task[s].frame.message)
                           THEN <<"validation_error">>
                           ELSE IF task[s].e = "none" THEN <<"llm_response">>
                           ELSE <<"llm_error">>

\* a query without message_id was answered: llm_response is the only frame
C23_Witness ==
    \E s \in SessionIds :
        /\ Untracked(s) /\ QueryDone(s) /\ Registered(s)
        /\ Kinds(LifecycleFrames(s, task[s].nread)) = <<"llm_response">>

\* ------------------------------------------------------ frames sent at connect
\* the frames the handler of s sent before its first receive_text returned
ConnectFrames(s) == LifecycleFrames(s, 0)

\* the frames the handlers of s sent, in the order of the wire
OwnFrames(s) == SelectSeq(outbox[s], LAMBDA f : f.origin = s)

\* C24: at connect the handler sends one status_update and, only when the
\* session has persisted messages, one chat_history after it; nothing else
\* is sent before the first inbound frame is read, every later frame of the
\* handler follows them on the wire, and a session still registered when
\* the read loop starts has received the status_update.
C24_ConnectFrames ==
    \A s \in SessionIds :
        LET ks == Kinds(ConnectFrames(s))
            own == OwnFrames(s)
        IN /\ ks \in {<<>>, <<"status_update">>, <<"status_update", "chat_history">>}
           /\ Len(ks) = 2 => db[s] # <<>>
           /\ \A i, j \in DOMAIN own : i < j => own[i].q <= own[j].q
           /\ task[s].nread >= 1 => task[s].pc \notin {"new", "context"}
           /\ task[s].pc \in {"new"} => ks = <<>>
           /\ (task[s].pc \notin {"new", "ended"} /\ Registered(s)) =>
                  Len(ks) >= 1

\* the read loop has read a frame and answered it after the one
\* status_update of the connect
C24_Witness ==
    \E s \in SessionIds :
        /\ Registered(s) /\ task[s].nread >= 1
        /\ Kinds(ConnectFrames(s)) = <<"status_update">>
        /\ Len(OwnFrames(s)) >= 2

\* ------------------------------------------------------- the system message
\* positions of the system-role rows of session s
SystemRows(s) == { i \in DOMAIN db[s] : db[s][i].role = "system" }

\* C25: a session has at most one system-role row, and that row was written
\* while the session had no message: it is the first row of the session.
C25_OneSystemMessage ==
    \A s \in SessionIds : SystemRows(s) \subseteq {1}

\* a session with its system message followed by the rows of a query
C25_Witness ==
    \E s \in SessionIds : SystemRows(s) = {1} /\ Len(db[s]) >= 3

\* ------------------------------------------- generation for a session that left
\* the query of s is inside generate_response (the sleep of its retry loop)
\* and its session has left: removed from the registry, or the peer is gone
Orphaned(s) ==
    /\ task[s].pc = "backoff"
    /\ (~Registered(s) \/ client[s] = "gone")

\* C26: a generation whose session left while it was waiting goes on; when
\* it returns, the assistant row (the error row when it failed) is written,
\* no frame reaches any wire, nothing is raised (the handler goes on to its
\* next step), and no other session's registration or handler changes.
C26_OrphanedGeneration ==
    [][ \A s \in SessionIds :
          Orphaned(s) =>
              /\ task'[s].pc \in {"backoff", "ack_delivered", "send_error", "recv"}
              /\ task'[s].pc # "backoff" =>
                    /\ db' = add_message(db, s, "assistant",
                                 IF task'[s].e = "none" THEN "reply" ELSE "Error")
                    /\ outbox' = outbox
                    /\ manager' = disconnect(manager, s)
                    /\ \A o \in SessionIds \ {s} : task'[o] = task[o]
      ]_vars

\* the session was removed between message_ack{processing} and the return
\* of the generation: the reply is stored and was sent to nobody, and the
\* other session is still registered
C26_Witness ==
    \E s \in SessionIds :
        /\ ~Registered(s) /\ task[s].pc \in {"ack_delivered", "recv"}
        /\ Tracked(s) /\ task[s].e = "none" /\ task[s].attempt >= 1
        /\ Acks(s, task[s].nread) = <<"received", "processing">>
        /\ "llm_response" \notin { Kind(LifecycleFrames(s, task[s].nread)[i]) :
                                     i \in DOMAIN LifecycleFrames(s, task[s].nread) }
        /\ db[s][Len(db[s])] = ChatMessage("assistant", "reply")
        /\ \E o \in SessionIds \ {s} : Registered(o)

\* ------------------------------------------------ the user row is not written
\* the add_message call for the user message of the query s is in raised
UserWriteFailed(s) == <<s, task[s].nread, task[s].frame.message>> \in store_faults

\* what a registered client is sent when the lifecycle fails
FailureFrames(s) ==
    IF Tracked(s) THEN <<"received", "processing", "error", "llm_error">>
    ELSE <<"llm_error">>

\* the frames of a query whose user row was not written
UserWriteFailedFrames ==
    \A s \in SessionIds :
        UserWriteFailed(s) =>
            LET ks == Kinds(LifecycleFrames(s, task[s].nread))
            IN /\ task[s].e = "store"
               /\ task[s].attempt = 0 /\ task[s].last_exception = "none"
               /\ IsPrefix(ks, FailureFrames(s))
               /\ (QueryDone(s) /\ Registered(s)) => ks = FailureFrames(s)

\* the step in which the write of the user row fails
UserWriteFailedStep ==
    \A s \in SessionIds :
        (~UserWriteFailed(s) /\ UserWriteFailed(s)') =>
            /\ llm_service' = llm_service
            /\ db'[s] \in {db[s], Append(db[s], ChatMessage("assistant", "Error"))}

\* C27: when the write of the user message fails the lifecycle fails: the
\* backend is not called (its counters are untouched, no attempt is made),
\* no llm_response is sent, and the client is sent message_ack{error} (with
\* a message_id) and then the llm_error frame.
C27_UserWriteFails == []UserWriteFailedFrames /\ [][UserWriteFailedStep]_vars

\* a tracked query whose user row was not written got both error frames
C27_Witness ==
    \E s \in SessionIds :
        /\ UserWriteFailed(s) /\ Tracked(s) /\ QueryDone(s) /\ Registered(s)
        /\ Kinds(LifecycleFrames(s, task[s].nread)) = FailureFrames(s)

\* ------------------------------------------------ the error row is not written
\* the best-effort add_message of the except clause raised for the query of s
ErrorRowFailed(s) == <<s, task[s].nread, "Error">> \in store_faults

\* the frames of a failed query whose error row was not written
ErrorRowFailedFrames ==
    \A s \in SessionIds :
        ErrorRowFailed(s) =>
            LET fs == LifecycleFrames(s, task[s].nread)
                ks == Kinds(fs)
            IN /\ task[s].e # "none"
               /\ IsPrefix(ks, FailureFrames(s))
               /\ \A i \in DOMAIN fs :
                     /\ ks[i] = "error" => fs[i].payload.error_message = task[s].e
                     /\ ks[i] = "llm_error" => fs[i].payload.error = LLMErrorText(task[s].e)
               /\ (QueryDone(s) /\ Registered(s)) => ks = FailureFrames(s)

\* the step in which the write of the error row fails: no row for the
\* error, and the handler goes on
ErrorRowFailedStep ==
    \A s \in SessionIds :
        (~ErrorRowFailed(s) /\ ErrorRowFailed(s)') =>
            /\ task'[s].pc \in {"send_error", "recv"}
            /\ \A i \in DOMAIN db'[s] :
                   i > Len(db[s]) => db'[s][i] # ChatMessage("assistant", "Error")

\* C28: when the best-effort write of the error row fails too, nothing but
\* the log shows it: the handler goes on, and the client is sent
\* message_ack{error} (with a message_id) and the llm_error frame, both with
\* the text of the error that made the query fail.
C28_ErrorRowFails == []ErrorRowFailedFrames /\ [][ErrorRowFailedStep]_vars

\* the backend failed, the error row could not be written, and the client
\* has both error frames
C28_Witness ==
    \E s \in SessionIds :
        /\ ErrorRowFailed(s) /\ Tracked(s) /\ QueryDone(s) /\ Registered(s)
        /\ task[s].e \in ApiOutcomes
        /\ Kinds(LifecycleFrames(s, task[s].nread)) = FailureFrames(s)

\* ------------------------------------------- faults of log_connection_event
\* log_connection_event (or the session lookup before it) raised at connect
ConnectLogFailed(s) == <<s, 0, "connect">> \in store_faults

\* log_connection_event raised in the handler of WebSocketDisconnect
DisconnectLogFailed(s) == <<s, task[s].nread, "disconnect">> \in store_faults

\* C29: a fault of log_connection_event is caught and only logged: after one
\* at connect the handler has not ended, and after one at disconnect the
\* session is no longer in the registry.
C29_LogFaultCaught ==
    \A s \in SessionIds :
        /\ ConnectLogFailed(s) => task[s].pc # "ended"
        /\ DisconnectLogFailed(s) => ~Registered(s)

\* ------------------------------------------- the context message in the request
\* C30: on every turn the backend is called with the session's persisted
\* context message in its system channel.
C30_ContextInSystemChannel ==
    (request.called /\ SystemRows(request.session) # {}) =>
        \E i \in DOMAIN request.system :
            request.system[i] = db[request.session][1].content

\* ------------------------------------------------- the turn list of a request
\* C31: the turn list of a request ends with the current message as a user
\* turn, and the current message is there once: the turn before it is not a
\* user turn (the store works, so every earlier user turn of the history is
\* followed by the assistant's row).
C31_CurrentMessageOnce ==
    request.called =>
        LET m == request.messages
            n == Len(m)
        IN /\ n >= 1
           /\ m[n].role = "user"
           /\ n >= 2 => m[n - 1].role # "user"

\* the entries of l from position `from` on, whose role is in `roles`
RECURSIVE EntriesFrom(_, _, _)
EntriesFrom(l, from, roles) ==
    IF from > Len(l) THEN <<>>
    ELSE IF l[from].role \in roles
    THEN <<l[from]>> \o EntriesFrom(l, from + 1, roles)
    ELSE EntriesFrom(l, from + 1, roles)

\* the step in which generate_response is called builds its request from
\* the last HISTORY_WINDOW rows
RequestShaped ==
    llm_service' # llm_service =>
        LET s     == request'.session
            H     == Append(db[s], ChatMessage("user", task'[s].frame.message))
            from  == IF Len(H) > HISTORY_WINDOW THEN Len(H) - HISTORY_WINDOW + 1 ELSE 1
            sys   == EntriesFrom(H, from, {"system"})
            turns == EntriesFrom(H, from, {"user", "assistant"})
        IN /\ request'.called
           /\ request'.system = <<"base">> \o [ i \in DOMAIN sys |-> sys[i].content ]
           /\ request'.messages =
                  Append([ i \in DOMAIN turns |-> LLMMessage(turns[i].role, turns[i].content) ],
                         LLMMessage("user", task'[s].frame.message))
           /\ \A i \in DOMAIN request'.messages :
                  request'.messages[i].role \in {"user", "assistant"}

\* C32: only the last 10 entries of the history are used; the system
\* entries among them are the system prompt's session context and are not
\* in the turn list; the turn list is the user and assistant entries among
\* them, in their order, followed by the current message.
C32_HistoryShaping == [][RequestShaped]_vars

\* a request built from a history longer than the window, whose system
\* message is outside of it
C32_Witness ==
    /\ request.called
    /\ Len(request.messages) = HISTORY_WINDOW + 1
    /\ request.system = <<"base">>
    /\ SystemRows(request.session) # {}

\* ------------------------------------------------ the heartbeat service's cycle
\* the loop task is alive exactly while the service runs or is being stopped
ServiceStates ==
    /\ service.alive \in {0, 1}
    /\ service.running <=> hb.pc \in {"sleep", "ping"}
    /\ service.alive = 1 <=> hb.pc \in {"sleep", "ping", "cancelling"}
    /\ service.stopping => ~service.running

\* what a call of start or stop does
ServiceCalls ==
    service'.calls = service.calls + 1 =>
        /\ (service'.last = "start" /\ service.running) =>
               /\ hb' = hb
               /\ service' = [service EXCEPT !.calls = @ + 1, !.last = "start"]
        /\ (service'.last = "start" /\ ~service.running) =>
               /\ service'.running /\ service'.alive = 1
               /\ hb'.pc = "sleep"
        /\ (service'.last = "stop" /\ ~service.running) =>
               /\ hb' = hb
               /\ service' = [service EXCEPT !.calls = @ + 1, !.last = "stop"]
        /\ (service'.last = "stop" /\ service.running) =>
               /\ ~service'.running
               /\ hb'.pc \notin {"sleep", "ping"}

\* C33: the heartbeat service goes from running to stopped and back: start
\* while it runs and stop while it is stopped change nothing, start after
\* stop makes it run again, and at most one loop task is alive at any time.
C33_ServiceCycle == []ServiceStates /\ [][ServiceCalls]_vars

\* the service was stopped and started again, and its second loop task is
\* sending pings
C33_Witness ==
    /\ service.created = 2 /\ service.running /\ service.alive = 1
    /\ hb.pc = "ping"

\* ------------------------------------------------------------ a pong is read
\* the handler of s reads a pong frame in this step
PongRead(s) ==
    /\ task'[s].nread = task[s].nread + 1
    /\ task'[s].frame.kind = "pong"

\* what reading a pong does to the pending-ping table and to the registry
PongEffect ==
    \A s \in SessionIds :
        PongRead(s) =>
            /\ pending_pings' = DictDel(pending_pings, s)
            /\ manager'.user_connections = manager.user_connections
            /\ DOMAIN manager'.active_connections = DOMAIN manager.active_connections
            /\ \A o \in DOMAIN manager.active_connections :
                   manager'.active_connections[o] =
                       IF o = s
                       THEN [manager.active_connections[o] EXCEPT !.last_ping = now]
                       ELSE manager.active_connections[o]

\* C34: handle_pong drops the session's pending-ping entry and sets its
\* connection's last_ping to the current time; for a session that is not
\* registered the registry stays as it is: nothing is registered again.
C34_PongEffect == [][PongEffect]_vars

\* the pong of a session was read after a round of pings: its entry is
\* gone, the other session's entry is still there, last_ping is now
C34_Witness ==
    \E s \in SessionIds :
        /\ task[s].frame.kind = "pong" /\ Registered(s)
        /\ s \notin DOMAIN pending_pings
        /\ DOMAIN pending_pings # {}
        /\ manager.active_connections[s].last_ping = now /\ now > 0

\* ------------------------------------------------- a ping that cannot be sent
\* the monitor's ping to sid fails in this step: the session is registered,
\* its peer is gone
ProbeFails(sid) ==
    /\ hb.pc = "ping" /\ sid \in hb.queue /\ sid \notin hb'.queue
    /\ Registered(sid) /\ client[sid] = "gone"

\* C35: a ping that cannot be sent does not end the round (the sessions
\* still to be pinged stay in the queue), and the session stays registered
\* unless the timeout check at the end of the round finds it timed out.
C35_ProbeLeavesRegistered ==
    [][ \A sid \in SessionIds :
          ProbeFails(sid) =>
              /\ hb'.queue = hb.queue \ {sid}
              /\ sid \notin timed_out_sessions(manager, now) =>
                     sid \in DOMAIN manager'.active_connections
      ]_vars

\* ------------------------------------------------ one frame after the other
\* the handler of s is inside the lifecycle of a query
InLifecycle(s) == task[s].pc \in {"ack_processing", "backoff", "ack_delivered", "send_error"}

\* the last frame the lifecycle of a query with a text sends
TerminalFrames(s) ==
    IF Tracked(s) THEN {"delivered", "llm_error"} ELSE {"llm_response", "llm_error"}

\* the lifecycle of the query s read last has sent its terminal frame
LifecycleOver(s) ==
    LET ks == Kinds(LifecycleFrames(s, task[s].nread))
    IN ks # <<>> /\ ks[Len(ks)] \in TerminalFrames(s)

\* the handler of s reads its next frame in this step
FrameRead(s) == task'[s].nread = task[s].nread + 1

\* a frame is read only by a handler that is through with the frame before
ReadsInTurn ==
    \A s \in SessionIds :
        FrameRead(s) =>
            /\ ~InLifecycle(s)
            /\ task[s].frame.kind = "llm_query" => LifecycleOver(s)

\* C36: a handler reads its next frame only when the lifecycle of the frame
\* before has sent its terminal frame, so the frames and rows of a second
\* query of a connection come after all frames of the first; lifecycles of
\* different connections interleave.
C36_OneAtATime ==
    /\ [](\A s \in SessionIds :
             LET own == OwnFrames(s)
             IN \A i, j \in DOMAIN own : i < j => own[i].q <= own[j].q)
    /\ [][ReadsInTurn]_vars

\* a connection is in the lifecycle of its second query while the other
\* connection is in the middle of a lifecycle of its own
C36_Witness ==
    \E s \in SessionIds :
        /\ task[s].nread >= 2 /\ InLifecycle(s)
        /\ \E o \in SessionIds \ {s} : InLifecycle(o)

\* --------------------------------------------- the monitor during a backend call
\* C37: the backend call is a suspension point, so the heartbeat task goes
\* on while a query waits for it: the monitor is never asleep a full ping
\* interval or more past the time its sleep ends.
C37_BackendCallSuspends ==
    hb.pc = "sleep" => now < hb.wake + ping_interval

\* ------------------------------------------- pending pings and the registry
\* C38: between heartbeat steps, every key of the pending-ping table is a
\* session id present in active_connections.
C38_PendingRegistered ==
    hb.pc = "sleep" =>
        DOMAIN pending_pings \subseteq DOMAIN manager.active_connections

\* -------------------------------------------- an ended handler and the registry
\* C39: whenever a connection's handler task has ended, for any reason, its
\* session is neither a key of active_connections nor listed in a bucket of
\* user_connections.
C39_EndedUnregistered ==
    \A s \in SessionIds :
        task[s].pc = "ended" =>
            /\ ~Registered(s)
            /\ \A u \in DOMAIN manager.user_connections : Listed(u, s) = {}

\* ------------------------------------------ frames of an unregistered session
\* the handler of s sends a request to the generation backend
BackendCalled(s) ==
    /\ request' # request
    /\ request'.called
    /\ request'.session = s

\* C40: a handler reads and processes frames only while its session is
\* registered: no frame is read from, and no backend request is made for, a
\* session that is not in active_connections.
C40_UnregisteredIdle ==
    [][\A s \in SessionIds :
          (FrameRead(s) \/ BackendCalled(s)) => Registered(s)]_vars

====
